---- MODULE Spec2Model ----
(***************************************************************************)
(* Backtesting engine of app/backtesting/backtest_engine.py.               *)
(*                                                                         *)
(* A Backtester is constructed over a price series and a strategy, is      *)
(* optionally given a position-sizing method, runs the strategy's          *)
(* generate_signals, replays the bars one by one into a portfolio history  *)
(* and is finally asked for its performance metrics.  The series is the    *)
(* rows of a frame (data), the columns the frame has (columns) and the     *)
(* labels of the rows (index).                                             *)
(*                                                                         *)
(* Money (cash, holdings, total) is kept in thousandths of a currency      *)
(* unit, so that the default commission of 0.001 is exact.  Share counts,  *)
(* prices, signals and indicator values are integers.  A floating-point    *)
(* not-a-number is the value NaN, and every comparison goes through the    *)
(* operators Lt, Gt, Le, Ge, Ne, which treat it as IEEE-754 does.          *)
(*                                                                         *)
(* Several specifications share the variables: Spec, the Backtester over   *)
(* every strategy and sizing method; MetricsSpec, the backtests of longer  *)
(* series whose trades get_performance_metrics extracts; GreeksSpec and    *)
(* BinomialSpec, the calls of black_scholes_greeks and of                  *)
(* binomial_option_price of app/helpers/options_calc.py; SharedSpec, two   *)
(* Backtesters that run side by side over one series object;               *)
(* CrossSpec, the backtests of MACDStrategy over the longer series; and    *)
(* SizingSpec, backtests sized by a percentage that float64 does not hold  *)
(* exactly.                                                                *)
(***************************************************************************)
EXTENDS Integers, Sequences, FiniteSets, TLC

\* Longest price series replayed.
MaxBars == 4

\* Thousandths per currency unit; commission=0.001 is 1 thousandth per unit.
Milli == 1000
commission == 1

\* RSIStrategy's default thresholds.
overbought == 70
oversold == 30

\* numpy's nan: the value of an indicator during its warm-up, and of the first
\* element of Series.diff().
NaN == -999999

\* Position-sizing method keys that run_backtest tests for, the key of a method
\* it does not know, and the marker of a Backtester on which set_position_sizing
\* was never called (the attributes do not exist).
KnownMethods == {"fixed_dollar", "percentage", "fixed_risk", "fixed_shares"}
UnknownMethod == "kelly"
Unset == "<unset>"

\* Strategy classes, by the keys app/backtesting/dash_app.py gives them.
Strategies == {"ma_cross", "rsi", "macd", "ma_rsi"}

\* Close prices of a bar.
Prices == {10, 50}

\* Indicator columns of a bar as fetch_stock_data precomputes them: an oversold,
\* a neutral and an overbought market, and the warm-up row.
WarmUp == [RSI |-> NaN, MACD |-> NaN, Signal |-> NaN]
IndicatorRows ==
    { [RSI |-> 20, MACD |-> -1, Signal |-> 0],
      [RSI |-> 50, MACD |-> 0, Signal |-> 0],
      [RSI |-> 80, MACD |-> 1, Signal |-> 0],
      WarmUp }

Bar(c, ind) == [close |-> c, RSI |-> ind.RSI, MACD |-> ind.MACD, Signal |-> ind.Signal]

\* The columns a strategy reads: the close and the indicators.  A frame has
\* the close and all the indicators (fetch_stock_data added them), the close
\* alone (a bare price frame; the fields of a bar hold the warm-up value
\* there and are not read), or no column at all: the pd.DataFrame() that
\* fetch_stock_data returns when it has no data, which has no rows either.
IndicatorColumns == {"RSI", "MACD", "Signal"}
ColumnSets == {{"close"} \cup IndicatorColumns, {"close"}, {}}
Bars == { Bar(c, ind) : c \in Prices, ind \in IndicatorRows }

\* The index of a frame: its dtype and the labels of its rows.  A label of a
\* DatetimeIndex is a time, in minutes since Monday 2024-01-01 00:00; the
\* labels of a RangeIndex are the numbers 0, 1, 2, ... of the rows.
DatetimeIndex(labels) == [dtype |-> "datetime64[ns]", labels |-> labels]
RangeIndex(n) == [dtype |-> "int64", labels |-> [i \in 1..n |-> i - 1]]

\* Timedelta.days: the whole days of a difference of two times.
MinutesPerDay == 1440
days(delta) == delta \div MinutesPerDay

\* The labels of the histories fetch_stock_data returns.  Daily bars
\* (interval 1d) are dated at midnight of the trading days, here from Friday
\* 2024-01-05 on, no bar falling on a weekend; weekly bars (1wk) are dated
\* each Monday; the bars of fetch_stock_data's default interval 1m follow one
\* another by the minute from 09:30 of one day.
Midnight(day) == day * MinutesPerDay
TradingDay(b) == Midnight(7 * (b \div 5) + (b % 5))
DailyBars(n) == DatetimeIndex([i \in 1..n |-> TradingDay(i + 3)])
WeeklyBars(n) == DatetimeIndex([i \in 1..n |-> Midnight(7 * (i - 1))])
MinuteBars(n) == DatetimeIndex([i \in 1..n |-> 569 + i])

\* The index of a frame by its columns: a frame that fetch_stock_data filled
\* carries the dates of its bars; a bare price frame, as
\* pd.DataFrame({'close': [...]}) builds it, and the empty pd.DataFrame()
\* carry a RangeIndex.
IndexOf(cols, n) ==
    IF cols = {"close"} \cup IndicatorColumns THEN DailyBars(n) ELSE RangeIndex(n)

\* An indicator is undefined on a prefix of the series only (its warm-up).
WarmUpIsPrefix(d) ==
    \A i \in 1..Len(d) : d[i].RSI = NaN => \A j \in 1..i : d[j].RSI = NaN

SeriesUpTo(n) == UNION { { d \in [1..k -> Bars] : WarmUpIsPrefix(d) } : k \in 0..n }

\* The series each strategy is constructed over.  RSIStrategy, whose signal
\* follows the level of its indicator and so takes every sequence of values,
\* gets the longest ones; the two moving-average strategies, whose
\* generate_signals never gets as far as reading a row, get the shortest.
Longest(s) ==
    CASE s = "rsi" -> MaxBars
      [] s = "macd" -> MaxBars - 1
      [] OTHER -> 2

\* The ten strictly increasing closes 10, 11, ..., 19, fewer bars than any
\* indicator's warm-up.
RisingCloses == [i \in 1..10 |-> Bar(9 + i, WarmUp)]

Constructions ==
    { c \in Strategies \X SeriesUpTo(MaxBars) : Len(c[2]) <= Longest(c[1]) }
        \cup {<< "ma_cross", RisingCloses >>}

\* Constructor and set_position_sizing arguments that are exercised together.
\* The methods that size from the portfolio total are run on the small account
\* with 200 percent, where a fall of the close takes the total below zero; the
\* default capital is run with the default sizing, which is also run on the
\* small account, where one trade costs more than the capital.  Every amount
\* then stays a 32-bit number of thousandths.
Accounts ==
    { [initial_capital |-> 100000, method |-> "fixed_dollar", value |-> 10000],
      [initial_capital |-> 1000, method |-> "fixed_dollar", value |-> 10000],
      [initial_capital |-> 1000, method |-> "percentage", value |-> 200],
      [initial_capital |-> 1000, method |-> "fixed_risk", value |-> 200],
      [initial_capital |-> 1000, method |-> "fixed_shares", value |-> 10],
      [initial_capital |-> 1000, method |-> UnknownMethod, value |-> 10] }

----------------------------------------------------------------------------
\* IEEE-754 comparisons: every ordered comparison with NaN is false, != is true.
Lt(a, b) == a # NaN /\ b # NaN /\ a < b
Gt(a, b) == a # NaN /\ b # NaN /\ a > b
Le(a, b) == a # NaN /\ b # NaN /\ a <= b
Ge(a, b) == a # NaN /\ b # NaN /\ a >= b
Ne(a, b) == a = NaN \/ b = NaN \/ a # b

\* Python's int(): truncation toward zero of a / b, b > 0.
Trunc(a, b) == IF a >= 0 THEN a \div b ELSE -((-a) \div b)

\* The exact quotient a * b / d truncated toward zero, for b, d > 0, computed
\* without leaving 32 bits.
TruncMulDiv(a, b, d) ==
    LET m == IF a >= 0 THEN a ELSE -a
        q == (m \div d) * b + ((m % d) * b) \div d
    IN  IF a >= 0 THEN q ELSE -q

Min(a, b) == IF a <= b THEN a ELSE b
Abs(x) == IF x < 0 THEN -x ELSE x
Sign(x) == IF x > 0 THEN 1 ELSE IF x < 0 THEN -1 ELSE 0

----------------------------------------------------------------------------
(* float64 arithmetic, as the cash and total columns and the position       *)
(* sizing of run_backtest use it.                                           *)

\* Bits of a float64 significand, and bits of a piece: the digits, to the base
\* 2^14, that the significands are written in, the most significant first.
Precision == 53
Piece == 14
Base == 2 ^ Piece

\* A float64: its sign, its significand of 53 bits as four pieces (the first
\* one of 11 bits) and the power of two that scales it; Nought is 0.0.
Double(s, m, e) == [s |-> s, m |-> m, e |-> e]
Nought == Double(0, << 0, 0, 0, 0 >>, 0)
Negated(x) == Double(-x.s, x.m, x.e)

\* Piece i of a number, nothing outside it, and the 14 bits of it that start
\* at bit w, bit 1 being the highest of its first piece.
Digit(m, i) == IF i \in 1..Len(m) THEN m[i] ELSE 0
Window(m, w) ==
    LET k == (w - 1) \div Piece
        off == (w - 1) % Piece
    IN  (Digit(m, k + 1) % 2 ^ (Piece - off)) * 2 ^ off
            + Digit(m, k + 2) \div 2 ^ (Piece - off)

\* The bit at which a number, not zero, begins.
Leading(m) ==
    LET first == CHOOSE i \in 1..Len(m) : m[i] # 0 /\ \A j \in 1..(i - 1) : m[j] = 0
        length == CHOOSE h \in 1..Piece : 2 ^ (h - 1) <= m[first] /\ m[first] < 2 ^ h
    IN  (first - 1) * Piece + (Piece - length) + 1

\* Round to nearest, ties to even: a number m * 2^e, with more below it when
\* rest is true, to the float64 next to it.  The 53 bits from the leading one
\* are kept; the bit after them (guard) and whatever follows it (sticky)
\* decide whether the significand is stepped up.
Successor(m) ==
    LET last == CHOOSE i \in 1..4 : m[i] # Base - 1 /\ \A j \in (i + 1)..4 : m[j] = Base - 1
    IN  [i \in 1..4 |-> IF i < last THEN m[i] ELSE IF i = last THEN m[i] + 1 ELSE 0]
Rounded(s, m, e, rest) ==
    IF \A i \in 1..Len(m) : m[i] = 0 THEN Nought
    ELSE LET from == Leading(m)
             kept == [j \in 1..4 |-> Window(m, from - 3 + (j - 1) * Piece)]
             scale == e + (Len(m) * Piece - from + 1) - Precision
             guard == Window(m, from + Precision) \div 2 ^ (Piece - 1)
             sticky == rest \/ \E j \in 0..Len(m) :
                                  Window(m, from + Precision + 1 + j * Piece) # 0
             up == Successor(kept)
         IN  IF guard = 0 \/ (~sticky /\ kept[4] % 2 = 0) THEN Double(s, kept, scale)
             ELSE IF up[1] = 2 ^ 11 THEN Double(s, << 2 ^ 10, 0, 0, 0 >>, scale + 1)
             ELSE Double(s, up, scale)

\* A whole number below 2^31 in size is held exactly.
Exact(n) ==
    Rounded(Sign(n), << Abs(n) \div Base ^ 2, (Abs(n) \div Base) % Base, Abs(n) % Base >>,
            0, FALSE)

\* x / d for a whole d, 0 < d < 2^17: the long division of the significand,
\* followed by five pieces of zeros, a piece at a time.
RECURSIVE LongDivision(_, _, _, _, _)
LongDivision(m, d, k, r, q) ==
    IF k = Len(m) THEN [q |-> q, r |-> r]
    ELSE LET n == r * Base + m[k + 1]
         IN  LongDivision(m, d, k + 1, n % d, Append(q, n \div d))
Divide(x, d) ==
    LET l == LongDivision(x.m \o << 0, 0, 0, 0, 0 >>, d, 0, 0, << >>)
    IN  Rounded(x.s, l.q, x.e - 5 * Piece, l.r # 0)

\* x * y: the columns of the long multiplication of the pieces, carried from
\* the right.
Term(a, b, i, k) == IF k - i \in 0..3 THEN a[4 - i] * b[4 - (k - i)] ELSE 0
RECURSIVE Carried(_, _, _, _, _)
Carried(a, b, k, carry, acc) ==
    IF k = 8 THEN acc
    ELSE LET s == Term(a, b, 0, k) + Term(a, b, 1, k) + Term(a, b, 2, k)
                    + Term(a, b, 3, k) + carry
         IN  Carried(a, b, k + 1, s \div Base, << s % Base >> \o acc)
Multiply(x, y) == Rounded(x.s * y.s, Carried(x.m, y.m, 0, 0, << >>), x.e + y.e, FALSE)

\* x + y: the significands written to the smaller exponent and to one
\* length, added or, for opposite signs, the smaller taken from the larger, a
\* piece at a time from the right.  An operand more than 120 bits below the
\* other one leaves it as it is.
Shifted(m, by, length) ==
    [j \in 1..length |-> Window(m, (j - 1) * Piece + 1 - (length * Piece - 4 * Piece - by))]
Below(a, b) ==
    \E i \in 1..Len(a) : a[i] < b[i] /\ \A j \in 1..(i - 1) : a[j] = b[j]
RECURSIVE Summed(_, _, _, _, _, _)
Summed(a, b, sign, k, carry, acc) ==
    IF k = 0 THEN acc
    ELSE LET s == a[k] + sign * b[k] + carry
         IN  Summed(a, b, sign, k - 1, s \div Base, << s % Base >> \o acc)
Add(x, y) ==
    IF x.s = 0 \/ (y.s # 0 /\ y.e - x.e > 120) THEN y
    ELSE IF y.s = 0 \/ x.e - y.e > 120 THEN x
    ELSE LET e == IF x.e < y.e THEN x.e ELSE y.e
             length == 5 + (Abs(x.e - y.e) + Piece - 1) \div Piece
             a == Shifted(x.m, x.e - e, length)
             b == Shifted(y.m, y.e - e, length)
         IN  IF x.s = y.s THEN Rounded(x.s, Summed(a, b, 1, length, 0, << >>), e, FALSE)
             ELSE IF Below(a, b) THEN Rounded(y.s, Summed(b, a, -1, length, 0, << >>), e, FALSE)
             ELSE Rounded(x.s, Summed(a, b, -1, length, 0, << >>), e, FALSE)

\* int(x): the whole part, toward zero, of a double below 2^31 in size.
Truncated(x) ==
    LET end == 4 * Piece + x.e
    IN  x.s * (Window(x.m, end - 3 * Piece + 1) * Base ^ 2
                 + Window(x.m, end - 2 * Piece + 1) * Base + Window(x.m, end - Piece + 1))

\* The cash column in float64.  A row carries the ledger of its cash: the
\* capital it was seeded with and the amounts shares * price booked on it
\* since, in order.  A buy takes amount * (1 + commission) off the cash, a
\* sale adds amount * (1 - commission) to it.
Seeded(capital) == << [op |-> "capital", amount |-> capital] >>
Booked(ledger, op, amount) == Append(ledger, [op |-> op, amount |-> amount])
Rate == Divide(Exact(commission), Milli)
Charged(entry) ==
    IF entry.op = "buy"
    THEN Negated(Multiply(Exact(entry.amount), Add(Exact(1), Rate)))
    ELSE Multiply(Exact(entry.amount), Add(Exact(1), Negated(Rate)))
RECURSIVE FloatCash(_, _)
FloatCash(ledger, n) ==
    IF n = 1 THEN Exact(ledger[1].amount)
    ELSE Add(FloatCash(ledger, n - 1), Charged(ledger[n]))

\* total = holdings + cash of a row in float64; the holdings, position *
\* close, are a whole number.
FloatTotal(row) ==
    Add(Exact(row.position * row.close), FloatCash(row.ledger, Len(row.ledger)))

\* trade_value = total[t-1] * (value / 100) and int(trade_value / price).
trade_value(total, value) == Multiply(total, Divide(Exact(value), 100))
FloatShares(total, value, price) == Truncated(Divide(trade_value(total, value), price))

\* The share count sized from the total of row t-1, prior.  A quotient
\* total * value / (100 * price) that is not whole lies at least
\* 1 / (100 * Milli * price) away from the whole numbers, and the roundings of
\* the float64 operations, those behind the total included, move it by far
\* less for the amounts that 32 bits hold: there int() gives the exact
\* quotient truncated toward zero.  Where the exact quotient is whole the
\* float64 operations are carried out: the result can fall just below it,
\* and int() then drops a share.
IsWholeQuotient(a, b, d) == ((Abs(a) % d) * b) % d = 0
SharesOfTotal(prior, value, price) ==
    IF ~IsWholeQuotient(prior.total, value, 100 * Milli * price)
    THEN TruncMulDiv(prior.total, value, 100 * Milli * price)
    ELSE FloatShares(FloatTotal(prior), value, price)

----------------------------------------------------------------------------
\* The frame that stands for Python's None.
None == [none |-> TRUE]
Frame(r) == [rows |-> r]

----------------------------------------------------------------------------
VARIABLES
    data,                    \* self.data: the input series
    columns,                 \* the columns self.data has
    index,                   \* self.data.index, which signals and portfolio take over
    strategy,                \* self.strategy: the strategy class
    initial_capital,         \* self.initial_capital, in currency units
    position_sizing_method,  \* self.position_sizing_method, or Unset
    position_sizing_value,   \* self.position_sizing_value
    signals,                 \* self.signals
    portfolio,               \* self.portfolio
    t,                       \* run_backtest's loop index
    pc,                      \* where the caller stands
    error,                   \* the exception that reached the caller, or ""
    metrics,                 \* what get_performance_metrics returned
    trade_returns,           \* get_performance_metrics' list trade_returns
    trade_performance,       \* get_performance_metrics' dict trade_performance
    option,                  \* the arguments of a call of black_scholes_greeks
    greeks,                  \* what that call answered
    binomial,                \* the arguments binomial_option_price is called with
    priced,                  \* where its call stands, by the argument american
    frames,                  \* the frame objects of concurrent backtests, by reference
    runs                     \* the Backtester instances that share one input series

vars == << data, columns, index, strategy, initial_capital, position_sizing_method,
           position_sizing_value, signals, portfolio, t, pc, error, metrics,
           trade_returns, trade_performance, option, greeks, binomial, priced,
           frames, runs >>

inputs == << data, columns, index, strategy, initial_capital >>
sizing == << position_sizing_method, position_sizing_value >>
locals == << trade_returns, trade_performance >>
pricer == << option, greeks, binomial, priced >>
shared == << frames, runs >>

----------------------------------------------------------------------------
(* Strategies.generate_signals: each returns the outcome of the call, which  *)
(* is a frame of rows (the copy of data plus the columns signal and          *)
(* positions) or an exception.                                               *)

Returned(frame) == [raised |-> FALSE, error |-> "", frame |-> frame]
Raised(e) == [raised |-> TRUE, error |-> e, frame |-> None]

\* Series.shift(1) and Series.diff(), element i (1-based) of the column col.
Shift(col, i) == IF i = 1 THEN NaN ELSE col[i - 1]
Diff(col, i) ==
    IF i = 1 \/ col[i] = NaN \/ col[i - 1] = NaN THEN NaN ELSE col[i] - col[i - 1]

Column(d, name) == [i \in 1..Len(d) |-> d[i][name]]

\* WithSignals whose positions column is the signal itself.
WithSignals_Level(d, sig) ==
    [i \in 1..Len(d) |->
        [close |-> d[i].close, RSI |-> d[i].RSI, MACD |-> d[i].MACD,
         Signal |-> d[i].Signal, signal |-> sig[i], positions |-> sig[i]]]

\* signals['positions'] = signals['signal'].diff(), on the copy of the data.
WithSignals(d, sig) ==
    [i \in 1..Len(d) |->
        [close |-> d[i].close, RSI |-> d[i].RSI, MACD |-> d[i].MACD,
         Signal |-> d[i].Signal, signal |-> sig[i], positions |-> Diff(sig, i)]]

\* RSIStrategy: 1.0 where RSI < oversold else 0.0, then -1.0 where
\* RSI > overbought.
RSISignal(rsi) ==
    LET first == IF Lt(rsi, oversold) THEN 1 ELSE 0
    IN  IF Gt(rsi, overbought) THEN -1 ELSE first

\* add_technical_indicators: an empty frame is returned as it is; otherwise the
\* RSI, MACD and Signal columns are assigned before anything in the try block
\* can raise.  On a series shorter than the indicators' periods (14 for the
\* RSI, 26 for the MACD), as every series here is, pandas_ta has no value for
\* any bar.
add_technical_indicators(d) ==
    [i \in 1..Len(d) |-> Bar(d[i].close, WarmUp)]
ColumnsAdded(d, cols) == IF Len(d) = 0 THEN cols ELSE cols \cup IndicatorColumns

\* "Ensure ... is calculated": the frame and the columns a strategy goes on
\* with when it needs the columns in needed.
Ensured(d, cols, needed) ==
    IF needed \subseteq cols
    THEN [rows |-> d, columns |-> cols]
    ELSE [rows |-> add_technical_indicators(d), columns |-> ColumnsAdded(d, cols)]

RSIStrategy_generate_signals(d, cols) ==
    LET e == Ensured(d, cols, {"RSI"})
    IN  IF "RSI" \notin e.columns
        THEN Raised("KeyError")
        ELSE Returned(Frame(WithSignals(e.rows,
                 [i \in 1..Len(e.rows) |-> RSISignal(e.rows[i].RSI)])))

\* MACDSignal that follows the side MACD is on instead of the crossing.
MACDSignal_LevelTriggered(d, i) ==
    IF Gt(d[i].MACD, d[i].Signal) THEN 1
    ELSE IF Lt(d[i].MACD, d[i].Signal) THEN -1 ELSE 0

\* MACDStrategy: 1.0 on the bar where MACD crosses above Signal, then -1.0 on
\* the bar where it crosses below.
MACDSignal(d, i) ==
    LET macd == Column(d, "MACD")
        sigl == Column(d, "Signal")
        first == IF Gt(macd[i], sigl[i]) /\ Le(Shift(macd, i), Shift(sigl, i))
                 THEN 1 ELSE 0
    IN  IF Lt(macd[i], sigl[i]) /\ Ge(Shift(macd, i), Shift(sigl, i))
        THEN -1 ELSE first

MACDStrategy_generate_signals(d, cols) ==
    LET e == Ensured(d, cols, {"MACD", "Signal"})
    IN  IF ~({"MACD", "Signal"} \subseteq e.columns)
        THEN Raised("KeyError")
        ELSE Returned(Frame(WithSignals(e.rows,
                 [i \in 1..Len(e.rows) |-> MACDSignal(e.rows, i)])))

\* MovingAverageCrossStrategy: the body subscripts the frame with 'close' for
\* the rolling means and then with 'RSI', without ensuring the column, and
\* then reads self.rsi_buy, an attribute its constructor never sets.
MovingAverageCrossStrategy_generate_signals(d, cols) ==
    IF "close" \notin cols \/ "RSI" \notin cols
    THEN Raised("KeyError")
    ELSE Raised("AttributeError")

\* MAWithRSIStrategy: after ensuring the RSI the body ends with
\* signals['short_ma'] = signals, the assignment of a whole frame to one
\* column, which pandas refuses when the frame has several columns and when
\* it has none.  A frame of one column passes (the empty frame with the
\* column close comes back from add_technical_indicators as it went in): the
\* body ends there without a return statement, and the method returns None.
MAWithRSIStrategy_generate_signals(d, cols) ==
    IF Cardinality(Ensured(d, cols, {"RSI"}).columns) = 1
    THEN Returned(None)
    ELSE Raised("ValueError")

\* The outcome of self.strategy.generate_signals(self.data).
generate_signals(s, d, cols) ==
    CASE s = "rsi" -> RSIStrategy_generate_signals(d, cols)
      [] s = "macd" -> MACDStrategy_generate_signals(d, cols)
      [] s = "ma_cross" -> MovingAverageCrossStrategy_generate_signals(d, cols)
      [] s = "ma_rsi" -> MAWithRSIStrategy_generate_signals(d, cols)

----------------------------------------------------------------------------
(* Backtester.run_backtest, bar by bar.                                     *)

\* period return total[t] / total[t-1] - 1, kept as the exact fraction
\* num / den (den = 0 is the division by zero numpy answers with inf or nan).
Ratio(num, den) == [num |-> num, den |-> den]
Zero == Ratio(0, 1)

\* InitialRow with the total column left at zero instead of the capital.
InitialRow_TotalNotSeeded(r, capital) ==
    [close |-> r.close, RSI |-> r.RSI, MACD |-> r.MACD, Signal |-> r.Signal,
     signal |-> r.signal, positions |-> r.positions,
     position |-> 0, holdings |-> 0, cash |-> capital * Milli,
     ledger |-> Seeded(capital), total |-> 0, returns |-> [num |-> 0, den |-> 1]]

\* Row of self.portfolio after "Initialize portfolio metrics".
InitialRow(r, capital) ==
    [close |-> r.close, RSI |-> r.RSI, MACD |-> r.MACD, Signal |-> r.Signal,
     signal |-> r.signal, positions |-> r.positions,
     position |-> 0, holdings |-> 0, cash |-> capital * Milli,
     ledger |-> Seeded(capital), total |-> capital * Milli, returns |-> Zero]

\* The share count of a trade at price; prior is row t-1, whose total the
\* percentage and the fixed_risk method size from.
Shares(method, value, price, prior) ==
    CASE method = "fixed_dollar" -> Trunc(value, price)
      [] method \in {"percentage", "fixed_risk"} -> SharesOfTotal(prior, value, price)
      [] OTHER -> value

\* Carry that forgets the cash column.
Carry_PositionOnly(prev, cur) == [cur EXCEPT !.position = prev.position]

\* "Default current time values to previous time values".
Carry(prev, cur) ==
    [cur EXCEPT !.position = prev.position, !.cash = prev.cash, !.ledger = prev.ledger]

\* Buy that charges the commission the wrong way round.
Buy_CommissionRefunded(row, shares) ==
    [row EXCEPT !.position = @ + shares,
                !.cash = @ - shares * row.close * (Milli - commission),
                !.ledger = Booked(@, "buy", shares * row.close)]

\* Buy that opens a position only when none is held.
Buy_OnlyWhenFlat(row, shares) ==
    IF row.position # 0
    THEN row
    ELSE [row EXCEPT !.position = @ + shares,
                     !.cash = @ - shares * row.close * (Milli + commission),
                !.ledger = Booked(@, "buy", shares * row.close)]

\* Buy that is refused when the cash does not cover its cost.
Buy_OnlyWithCash(row, shares) ==
    IF shares * row.close * (Milli + commission) > row.cash
    THEN row
    ELSE [row EXCEPT !.position = @ + shares,
                     !.cash = @ - shares * row.close * (Milli + commission),
                !.ledger = Booked(@, "buy", shares * row.close)]

\* The buy branch.
Buy(row, shares) ==
    [row EXCEPT !.position = @ + shares,
                !.cash = @ - shares * row.close * (Milli + commission),
                !.ledger = Booked(@, "buy", shares * row.close)]

\* Sell that does not limit the sale to the position held.
Sell_Uncapped(row, shares, prev) ==
    [row EXCEPT !.position = @ - shares,
                !.cash = @ + shares * row.close * (Milli - commission),
                !.ledger = Booked(@, "sell", shares * row.close)]

\* The sell branch; prev is row t-1.
Sell(row, shares, prev) ==
    LET shares_to_sell == Min(shares, prev.position)
    IN  [row EXCEPT !.position = @ - shares_to_sell,
                    !.cash = @ + shares_to_sell * row.close * (Milli - commission),
                    !.ledger = Booked(@, "sell", shares_to_sell * row.close)]

\* Valued that adds the holdings to the cash of the row before.
Valued_StaleCash(row, prev) ==
    LET h == row.position * row.close * Milli
    IN  [row EXCEPT !.holdings = h, !.total = h + prev.cash,
                    !.returns = [num |-> (h + prev.cash) - prev.total,
                                 den |-> prev.total]]

\* Holdings, total and period return of row t.
Valued(row, prev) ==
    LET h == row.position * row.close * Milli
    IN  [row EXCEPT !.holdings = h, !.total = h + row.cash,
                    !.returns = Ratio((h + row.cash) - prev.total, prev.total)]

\* IsSell without the test for a position to sell.
IsSell_AnyPosition(pos_diff, prev) == Lt(pos_diff, 0)

\* The branch run_backtest takes at a bar whose PositionChange is pos_diff.
IsTradeBar(pos_diff) == Ne(pos_diff, 0)
IsBuy(pos_diff) == Gt(pos_diff, 0)
IsSell(pos_diff, prev) == ~IsBuy(pos_diff) /\ Lt(pos_diff, 0) /\ prev.position > 0

\* The trade of a bar with a PositionChange: a buy, a sale, or neither.
TradeBranch(row, shares, prev) ==
    IF IsBuy(row.positions) THEN Buy(row, shares)
    ELSE IF IsSell(row.positions, prev) THEN Sell(row, shares, prev)
    ELSE row

\* BarStep that trades the sized count once per unit of the PositionChange.
BarStep_ScaledByChange(prev, cur, method, value) ==
    LET row == Carry(prev, cur)
        traded == IF ~IsTradeBar(row.positions) THEN row
                  ELSE TradeBranch(row, Shares(method, value, row.close, prev)
                                          * (IF row.positions = NaN THEN 1 ELSE Abs(row.positions)),
                                   prev)
    IN  Valued(traded, prev)

\* One iteration of the loop body: row t from row t-1.
BarStep(prev, cur, method, value) ==
    LET row == Carry(prev, cur)
        traded == IF ~IsTradeBar(row.positions) THEN row
                  ELSE TradeBranch(row, Shares(method, value, row.close, prev), prev)
    IN  Valued(traded, prev)

----------------------------------------------------------------------------
(* Backtester.get_performance_metrics.                                      *)

NotReturned == [returned |-> FALSE]

\* trade_performance before get_performance_metrics has built it.
NoStatistics == [total_trades |-> 0, buy_trades |-> 0, sell_trades |-> 0]
ReturnedDict(d) == [returned |-> TRUE, value |-> d]

\* The empty dict returned while self.portfolio is None.
EmptyDict == ReturnedDict([k \in {} |-> 0])

\* (total.iloc[-1] / initial_capital - 1) * 100, as the fraction num / den of
\* which it is the hundredfold.
TotalReturn(rows, capital) ==
    Ratio(rows[Len(rows)].total - capital * Milli, capital * Milli)

\* len(buy_trades), len(sell_trades): the rows with positions > 0, < 0.
BuyTrades(rows) == { i \in 1..Len(rows) : Gt(rows[i].positions, 0) }
SellTrades(rows) == { i \in 1..Len(rows) : Lt(rows[i].positions, 0) }

TradePerformance(rows) ==
    [total_trades |-> Cardinality(BuyTrades(rows)) + Cardinality(SellTrades(rows)),
     buy_trades |-> Cardinality(BuyTrades(rows)),
     sell_trades |-> Cardinality(SellTrades(rows))]

\* (exit_price / entry_price - 1) * 100.  The closes of Prices divide a hundred
\* times every difference of two of them, so the percentage is a whole number.
TradeReturn(entry_price, exit_price) ==
    ((exit_price - entry_price) * 100) \div entry_price

\* The record appended to trade_returns when a trade is closed.
Trade(entry_time, exit_time, entry_price, exit_price) ==
    [entry_time |-> entry_time, exit_time |-> exit_time,
     entry_price |-> entry_price, exit_price |-> exit_price,
     return |-> TradeReturn(entry_price, exit_price),
     profitable |-> TradeReturn(entry_price, exit_price) > 0]

\* in_trade, entry_price, entry_time and trade_returns before the loop.
NoTrade == [in_trade |-> FALSE, entry_price |-> 0, entry_time |-> 0, trades |-> << >>]

\* ExtractStep in which a buy opens a trade whether or not one is open.
ExtractStep_Reopens(st, i, row) ==
    IF Gt(row.positions, 0)
    THEN [st EXCEPT !.in_trade = TRUE, !.entry_price = row.close, !.entry_time = i]
    ELSE IF Lt(row.positions, 0) /\ st.in_trade
    THEN [st EXCEPT !.in_trade = FALSE,
                    !.trades = Append(@, Trade(st.entry_time, i, st.entry_price,
                                               row.close))]
    ELSE st

\* One iteration of the loop "for i, row in position_changes.iterrows()": i
\* is the label of the row, the time of its bar.
ExtractStep(st, i, row) ==
    IF Gt(row.positions, 0) /\ ~st.in_trade
    THEN [st EXCEPT !.in_trade = TRUE, !.entry_price = row.close, !.entry_time = i]
    ELSE IF Lt(row.positions, 0) /\ st.in_trade
    THEN [st EXCEPT !.in_trade = FALSE,
                    !.trades = Append(@, Trade(st.entry_time, i, st.entry_price,
                                               row.close))]
    ELSE st

\* The loop over the rows with positions != 0 among the first n, in bar order;
\* labels are the labels of the rows.
RECURSIVE Extract(_, _, _)
Extract(rows, labels, n) ==
    IF n = 0 THEN NoTrade
    ELSE IF Ne(rows[n].positions, 0)
    THEN ExtractStep(Extract(rows, labels, n - 1), labels[n], rows[n])
    ELSE Extract(rows, labels, n - 1)

\* trade_returns: filled only "if we have complete trades", at least one buy
\* row and one sell row.
TradeReturns(rows, labels) ==
    IF BuyTrades(rows) # {} /\ SellTrades(rows) # {}
    THEN Extract(rows, labels, Len(rows)).trades
    ELSE << >>

\* Sum of the return column over the trades with the given profitable flag.
RECURSIVE SumReturns(_, _, _)
SumReturns(trades, n, flag) ==
    IF n = 0 THEN 0
    ELSE SumReturns(trades, n - 1, flag)
         + (IF trades[n].profitable = flag THEN trades[n].return ELSE 0)

Count(trades, flag) == Cardinality({ k \in 1..Len(trades) : trades[k].profitable = flag })

\* float('inf'), and the quotient of two numbers as a fraction.
Infinity == Ratio(1, 0)

\* profit_factor whose test lets a zero average loss through to the division.
ProfitFactor_NoSignTest(avg_win, winning_trades, avg_loss, losing_trades) ==
    IF losing_trades > 0
    THEN Ratio(Abs(avg_win.num * winning_trades * avg_loss.den),
               Abs(avg_loss.num * losing_trades * avg_win.den))
    ELSE Infinity

\* abs(avg_win * winning_trades / (avg_loss * losing_trades))
\*     if losing_trades > 0 and avg_loss < 0 else float('inf')
ProfitFactor(avg_win, winning_trades, avg_loss, losing_trades) ==
    IF losing_trades > 0 /\ avg_loss.num < 0
    THEN Ratio(Abs(avg_win.num * winning_trades * avg_loss.den),
               Abs(avg_loss.num * losing_trades * avg_win.den))
    ELSE Infinity

\* "Calculate trade statistics": the keys trade_performance is updated with.
TradeStatistics(trades) ==
    LET winning_trades == Count(trades, TRUE)
        losing_trades == Count(trades, FALSE)
        avg_win == IF winning_trades > 0
                   THEN Ratio(SumReturns(trades, Len(trades), TRUE), winning_trades)
                   ELSE Zero
        avg_loss == IF losing_trades > 0
                    THEN Ratio(SumReturns(trades, Len(trades), FALSE), losing_trades)
                    ELSE Zero
    IN  [winning_trades |-> winning_trades,
         losing_trades |-> losing_trades,
         win_rate |-> Ratio(winning_trades * 100, Len(trades)),
         avg_win |-> avg_win,
         avg_loss |-> avg_loss,
         profit_factor |-> ProfitFactor(avg_win, winning_trades, avg_loss, losing_trades)]

\* trade_performance as the return statement finds it.
TradePerformanceUpdated(rows, labels) ==
    IF TradeReturns(rows, labels) # << >>
    THEN TradePerformance(rows) @@ TradeStatistics(TradeReturns(rows, labels))
    ELSE TradePerformance(rows)

\* The statistics that are square roots, powers and quotients of floating-point
\* columns are kept as the expression computed, over the columns it reads.
SharpeRatio(rows) == [sqrt252_mean_over_std_of |-> Column(rows, "returns")]
MaxDrawdown(rows) == [min_of_cumprod_over_cummax_of |-> Column(rows, "returns")]

\* (self.portfolio.index[-1] - self.portfolio.index[0]).days raises
\* AttributeError unless the labels are times: the difference of two numbers
\* has no attribute days.
DaysRaise(idx) == idx.dtype # "datetime64[ns]"

\* n_days = (self.portfolio.index[-1] - self.portfolio.index[0]).days, and
\* the annualized return as the base and the exponent of its power.
AnnualizedReturn(rows, labels, capital) ==
    LET n_days == days(labels[Len(labels)] - labels[1])
    IN  IF n_days > 0
        THEN [one_plus |-> TotalReturn(rows, capital), to_the |-> Ratio(365, n_days)]
        ELSE [one_plus |-> Zero, to_the |-> Zero]

\* The dict literal of the return statement.
MetricsDict(rows, labels, capital) ==
    [total_return |-> TotalReturn(rows, capital),
     annualized_return |-> AnnualizedReturn(rows, labels, capital),
     sharpe_ratio |-> SharpeRatio(rows),
     max_drawdown |-> MaxDrawdown(rows),
     final_equity |-> rows[Len(rows)].total,
     trade_metrics |-> TradePerformanceUpdated(rows, labels)]

\* The return statement subscripts that dict literal with 'close'.
SubscriptRaises(d, key) == key \notin DOMAIN d

----------------------------------------------------------------------------
(* app/helpers/options_calc.py: black_scholes_greeks.  Of each output the   *)
(* model keeps whether it is np.nan, infinite or a finite number.  To tell, *)
(* it follows the computation on floats of four significant digits: sign s, *)
(* digits c (1000..9999) and power of ten e stand for s * c * 10^e, and     *)
(* zero, the two infinities and not-a-number are floats of their own.  A    *)
(* product, quotient or sum leaves the range of a float64 as the float64    *)
(* does: beyond 1.797e308 it is infinite, below 2.47e-324 it is zero.       *)
(* math.log, math.exp, norm.pdf and norm.cdf are right to about one per     *)
(* cent, which is enough to place every result the arguments used here      *)
(* lead to on its side of those two limits.                                 *)

np_nan == [nan |-> TRUE]
Number(x) == [nan |-> FALSE, finite |-> x.k = "num"]

Finite(s, c, e) == [k |-> "num", s |-> s, c |-> c, e |-> e]
FloatZero == [k |-> "num", s |-> 0, c |-> 0, e |-> 0]
FloatInf(s) == [k |-> "inf", s |-> s, c |-> 0, e |-> 0]
FloatNaN == [k |-> "nan", s |-> 0, c |-> 0, e |-> 0]

RECURSIVE Tens(_)
Tens(n) == IF n = 0 THEN 1 ELSE 10 * Tens(n - 1)

\* s * c * 10^e with the digits brought to four.
RECURSIVE Scaled(_, _, _)
Scaled(s, c, e) ==
    IF s = 0 \/ c = 0 THEN FloatZero
    ELSE IF c > 9999 THEN Scaled(s, c \div 10, e + 1)
    ELSE IF c < 1000 THEN Scaled(s, c * 10, e - 1)
    ELSE Finite(s, c, e)

\* The float of a whole number, and of n * 10^e.
FloatOf(n) == Scaled(Sign(n), Abs(n), 0)
Decimal(n, e) == Scaled(Sign(n), Abs(n), e)

\* A result as the float64 holds it: infinite beyond 1.797e308, zero below
\* 2.47e-324, half the smallest subnormal.
Ranged(x) ==
    IF x.k # "num" \/ x.s = 0 THEN x
    ELSE IF x.e > 305 \/ (x.e = 305 /\ x.c > 1797) THEN FloatInf(x.s)
    ELSE IF x.e < -327 \/ (x.e = -327 /\ x.c < 2470) THEN FloatZero
    ELSE x

Opposite(x) == [x EXCEPT !.s = -x.s]

\* x * y: infinity times zero is not-a-number.
Product(x, y) ==
    IF x.k = "nan" \/ y.k = "nan" THEN FloatNaN
    ELSE IF x.k = "inf" \/ y.k = "inf"
         THEN IF x.s * y.s = 0 THEN FloatNaN ELSE FloatInf(x.s * y.s)
    ELSE Ranged(Scaled(x.s * y.s, x.c * y.c, x.e + y.e))

\* x / y where no exception is raised for a zero divisor (numpy's division,
\* which the second try block's quotients are): x / 0.0 is infinite, and
\* 0.0 / 0.0 and inf / inf are not-a-number.
Quotient(x, y) ==
    IF x.k = "nan" \/ y.k = "nan" THEN FloatNaN
    ELSE IF y.k = "inf" THEN IF x.k = "inf" THEN FloatNaN ELSE FloatZero
    ELSE IF y.s = 0 THEN IF x.s = 0 THEN FloatNaN ELSE FloatInf(x.s)
    ELSE IF x.k = "inf" THEN FloatInf(x.s * y.s)
    ELSE Ranged(Scaled(x.s * y.s, (x.c * 10000) \div y.c, x.e - y.e - 4))

\* x + y: a term more than four digits below the other is lost, and the
\* sum of the two infinities is not-a-number.
Sum(x, y) ==
    IF x.k = "nan" \/ y.k = "nan" THEN FloatNaN
    ELSE IF x.k = "inf" THEN IF y.k = "inf" /\ y.s # x.s THEN FloatNaN ELSE x
    ELSE IF y.k = "inf" \/ x.s = 0 THEN y
    ELSE IF y.s = 0 \/ x.e - y.e > 4 THEN x
    ELSE IF y.e - x.e > 4 THEN y
    ELSE IF x.e >= y.e
         THEN Ranged(Decimal(x.s * x.c * Tens(x.e - y.e) + y.s * y.c, y.e))
    ELSE Ranged(Decimal(x.s * x.c + y.s * y.c * Tens(y.e - x.e), x.e))

Difference(x, y) == Sum(x, Opposite(y))

\* The whole part of the square root of n, by Newton's iteration from above.
RECURSIVE IntegerRoot(_, _)
IntegerRoot(n, g) ==
    IF g * g <= n THEN g ELSE IntegerRoot(n, (g + n \div g) \div 2)

\* math.sqrt(x), x not negative.
math_sqrt(x) ==
    IF x.k # "num" \/ x.s = 0 THEN x
    ELSE IF x.e % 2 = 0
         THEN Scaled(1, IntegerRoot(x.c * 10000, 10000), (x.e - 4) \div 2)
    ELSE Scaled(1, IntegerRoot(x.c * 100000, 31623), (x.e - 5) \div 2)

\* ln(c / 1000) in thousandths, c in 1000..9999: ln 2 for every halving down
\* to 1..2, and there 2 atanh((y - 1) / (y + 1)) by its series.
RECURSIVE LogOfDigits(_)
LogOfDigits(c) ==
    IF c >= 2000 THEN 693 + LogOfDigits(c \div 2)
    ELSE LET z == ((c - 1000) * 10000) \div (c + 1000)
             z2 == (z * z) \div 10000
             z3 == (z * z2) \div 10000
             z5 == (z3 * z2) \div 10000
         IN  (2 * (z + z3 \div 3 + z5 \div 5)) \div 10

\* math.log(x), x positive: ln(c / 1000) + (e + 3) ln 10.
math_log(x) ==
    IF x.k # "num" THEN x
    ELSE Decimal(LogOfDigits(x.c) + ((x.e + 3) * 2302585) \div 1000, -3)

\* x in hundredths, as far as a thousand (more counts as a thousand).
Hundredths(x) ==
    IF x.k = "inf" \/ x.e > -1 THEN x.s * 100000
    ELSE IF x.e < -6 THEN 0
    ELSE x.s * ((x.c * 10) \div Tens(-x.e - 1))

\* math.exp(x) is a float up to x = 709.78, in hundredths; above, it raises
\* OverflowError.
ExpMax == 70978

\* 10^(n / 1000) for n in 0..999, scaled by 10000: the tenths, hundredths
\* and thousandths of the exponent one after the other.
RECURSIVE Raised10(_, _)
Raised10(n, by) == IF n = 0 THEN 10000 ELSE (Raised10(n - 1, by) * by) \div 10000
TenTo(n) ==
    (((Raised10(n \div 100, 12589) * Raised10((n \div 10) % 10, 10233)) \div 10000)
        * Raised10(n % 10, 10023)) \div 10000

\* math.exp(x) = 10^(x log10(e)); exp(-745.14) and below rounds to 0.0.
math_exp(x) ==
    IF x.k = "nan" THEN x
    ELSE IF Hundredths(x) > ExpMax THEN FloatInf(1)
    ELSE IF Hundredths(x) < -74513 THEN FloatZero
    ELSE Ranged(Scaled(1, TenTo(((Hundredths(x) * 4343) \div 1000) % 1000),
                       ((Hundredths(x) * 4343) \div 1000) \div 1000 - 4))

\* norm.pdf(x) = exp(-x**2 / 2) / sqrt(2 pi).
norm_pdf(x) ==
    Quotient(math_exp(Opposite(Quotient(Product(x, x), FloatOf(2)))), Decimal(2507, -3))

\* The upper tail of the normal distribution for x >= 0:
\* pdf(x) / (0.661 x + 0.339 sqrt(x^2 + 5.51)).
UpperTail(x) ==
    Quotient(norm_pdf(x),
             Sum(Product(Decimal(661, -3), x),
                 Product(Decimal(339, -3),
                         math_sqrt(Sum(Product(x, x), Decimal(551, -2))))))

\* norm.cdf(x): it is 0.0 from about x = -38.5 down, where the tail is below
\* the smallest float.
norm_cdf(x) ==
    IF x.k = "nan" THEN x
    ELSE IF x.s >= 0 THEN Difference(FloatOf(1), UpperTail(x))
    ELSE UpperTail(Opposite(x))

\* (np.nan,)*6, in the order delta, gamma, theta, vega, rho, bs_price.
AllNaN ==
    [delta |-> np_nan, gamma |-> np_nan, theta |-> np_nan, vega |-> np_nan,
     rho |-> np_nan, price |-> np_nan]

\* str.lower() on the option types used.
Lower(option_type) == IF option_type = "CALL" THEN "call" ELSE option_type

\* x <= 0
NotPositive(x) == x.k # "nan" /\ x.s <= 0

\* Degenerate without the test of the volatility.
Degenerate_VolatilityNotTested(S, K, T, sigma) ==
    NotPositive(T) \/ NotPositive(S) \/ NotPositive(K)

\* if T <= 0 or sigma <= 0 or S <= 0 or K <= 0
Degenerate(S, K, T, sigma) ==
    NotPositive(T) \/ NotPositive(sigma) \/ NotPositive(S) \/ NotPositive(K)

\* The first try block raises: S / K divides by zero; math.log gets a number
\* that is not positive, which an S / K underflowed to 0.0 is; sigma ** 2
\* overflows (a power raises OverflowError where a product becomes
\* infinite); math.sqrt gets a negative number; or sigma * math.sqrt(T) is
\* zero, being so or underflowed, under this block's division, which is
\* Python's and raises ZeroDivisionError.
D1Raises(S, K, T, sigma) ==
    \/ K.s = 0
    \/ NotPositive(Quotient(S, K))
    \/ sigma.k = "num" /\ Product(sigma, sigma).k = "inf"
    \/ T.s < 0
    \/ Product(sigma, math_sqrt(T)).s = 0

\* d1 = (math.log(S / K) + (r + 0.5 * sigma ** 2) * T) / (sigma * math.sqrt(T))
\* d2 = d1 - sigma * math.sqrt(T)
d1(S, K, T, r, sigma) ==
    Quotient(Sum(math_log(Quotient(S, K)),
                 Product(Sum(r, Product(Decimal(5, -1), Product(sigma, sigma))), T)),
             Product(sigma, math_sqrt(T)))
d2(S, K, T, r, sigma) ==
    Difference(d1(S, K, T, r, sigma), Product(sigma, math_sqrt(T)))

\* The second try block raises: math.exp(-r * T) overflows.  Nothing else
\* there does: its products become infinite and its quotients divide by
\* zero without an exception.
GreeksRaise_Never(r, T) == FALSE
GreeksRaise(r, T) ==
    /\ Product(Opposite(r), T).k = "num"
    /\ Hundredths(Product(Opposite(r), T)) > ExpMax

\* An output: np.nan, or a number, finite or infinite.
Output(x) == IF x.k = "nan" THEN np_nan ELSE Number(x)

\* math.exp(-r * T)
Discounted(r, T) == math_exp(Product(Opposite(r), T))

\* The outputs of the call branch and of the put branch; gamma and vega are
\* computed after the branches, and Decay is the first term of theta.
gamma(S, K, T, r, sigma) ==
    Quotient(norm_pdf(d1(S, K, T, r, sigma)), Product(Product(S, sigma), math_sqrt(T)))
vega(S, K, T, r, sigma) ==
    Quotient(Product(Product(S, norm_pdf(d1(S, K, T, r, sigma))), math_sqrt(T)),
             FloatOf(100))
Decay(S, K, T, r, sigma) ==
    Quotient(Product(Product(Opposite(S), norm_pdf(d1(S, K, T, r, sigma))), sigma),
             Product(FloatOf(2), math_sqrt(T)))
CallGreeks(S, K, T, r, sigma) ==
    [delta |-> Output(norm_cdf(d1(S, K, T, r, sigma))),
     gamma |-> Output(gamma(S, K, T, r, sigma)),
     theta |-> Output(Quotient(
                  Difference(Decay(S, K, T, r, sigma),
                             Product(Product(Product(r, K), Discounted(r, T)),
                                     norm_cdf(d2(S, K, T, r, sigma)))),
                  FloatOf(365))),
     vega |-> Output(vega(S, K, T, r, sigma)),
     rho |-> Output(Quotient(
                  Product(Product(Product(K, T), Discounted(r, T)),
                          norm_cdf(d2(S, K, T, r, sigma))),
                  FloatOf(100))),
     price |-> Output(Difference(
                  Product(S, norm_cdf(d1(S, K, T, r, sigma))),
                  Product(Product(K, Discounted(r, T)),
                          norm_cdf(d2(S, K, T, r, sigma)))))]
PutGreeks(S, K, T, r, sigma) ==
    [delta |-> Output(Opposite(norm_cdf(Opposite(d1(S, K, T, r, sigma))))),
     gamma |-> Output(gamma(S, K, T, r, sigma)),
     theta |-> Output(Quotient(
                  Sum(Decay(S, K, T, r, sigma),
                      Product(Product(Product(r, K), Discounted(r, T)),
                              norm_cdf(Opposite(d2(S, K, T, r, sigma))))),
                  FloatOf(365))),
     vega |-> Output(vega(S, K, T, r, sigma)),
     rho |-> Output(Quotient(
                  Product(Product(Product(Opposite(K), T), Discounted(r, T)),
                          norm_cdf(Opposite(d2(S, K, T, r, sigma)))),
                  FloatOf(100))),
     price |-> Output(Difference(
                  Product(Product(K, Discounted(r, T)),
                          norm_cdf(Opposite(d2(S, K, T, r, sigma)))),
                  Product(S, norm_cdf(Opposite(d1(S, K, T, r, sigma))))))]

\* What the call answers: it never raises, every exception of the two try
\* blocks being answered with (np.nan,)*6.
Answer(outputs) == [called |-> TRUE, raised |-> FALSE, outputs |-> outputs]
NotCalled == [called |-> FALSE]

black_scholes_greeks(S, K, T, r, sigma, option_type) ==
    IF Degenerate(S, K, T, sigma) THEN Answer(AllNaN)
    ELSE IF D1Raises(S, K, T, sigma) THEN Answer(AllNaN)
    ELSE IF GreeksRaise(r, T) THEN Answer(AllNaN)
    ELSE IF Lower(option_type) = "call" THEN Answer(CallGreeks(S, K, T, r, sigma))
    ELSE Answer(PutGreeks(S, K, T, r, sigma))

\* No call of the pricer is under way.
NoOption ==
    [S |-> FloatZero, K |-> FloatZero, T |-> FloatZero, r |-> FloatZero,
     sigma |-> FloatZero, option_type |-> "call"]

----------------------------------------------------------------------------
(* app/helpers/options_calc.py: binomial_option_price.  The numbers of the  *)
(* tree are exact fractions.  The volatility is given in units of ln 2 and  *)
(* the rate in units of ln 3/2, so that the two values math.exp is asked    *)
(* for, e^(sigma sqrt(dt)) and e^(r dt), are the fractions 2^(sigma         *)
(* sqrt(dt)) and (3/2)^(r dt); the rounding of the floating-point           *)
(* operations is left out.                                                  *)

RECURSIVE GCD(_, _)
GCD(a, b) == IF b = 0 THEN a ELSE GCD(b, a % b)

\* The fraction n / d, d # 0, in lowest terms with a positive denominator.
Fraction(n, d) ==
    LET g == GCD(Abs(n), Abs(d))
        s == IF d < 0 THEN -1 ELSE 1
    IN  [num |-> s * (n \div g), den |-> s * (d \div g)]
Whole(n) == Fraction(n, 1)

Plus(x, y) ==
    LET l == (x.den \div GCD(x.den, y.den)) * y.den
    IN  Fraction(x.num * (l \div x.den) + y.num * (l \div y.den), l)
Minus(x, y) == Plus(x, Fraction(-y.num, y.den))
Times(x, y) ==
    LET a == Fraction(x.num, y.den)
        b == Fraction(y.num, x.den)
    IN  [num |-> a.num * b.num, den |-> a.den * b.den]
Over(x, y) == Times(x, Fraction(y.den, y.num))
AtLeast(x, y) == Minus(x, y).num >= 0
Maximum(x, y) == IF AtLeast(x, y) THEN x ELSE y

\* x ** k for a whole exponent k.
RECURSIVE Power(_, _)
Power(x, k) ==
    IF k = 0 THEN Whole(1)
    ELSE IF k > 0 THEN Times(x, Power(x, k - 1))
    ELSE Over(Whole(1), Power(x, -k))

\* math.sqrt of a fraction that is the square of a whole number.
Sqrt(x) == CHOOSE q \in 0..x.num : q * q * x.den = x.num

\* math.exp of a multiple of ln 2 and of a multiple of ln 3/2.
ExpVolatility(k) == Power(Whole(2), k)
ExpRate(k) == Power(Fraction(3, 2), k)

\* "Calculate parameters", for steps # 0 and dt >= 0 (u # d where p is used).
StepLength(T, steps) == Fraction(T, steps)
UpFactor(T, sigma, steps) == ExpVolatility(sigma * Sqrt(StepLength(T, steps)))
DownFactor(T, sigma, steps) == Over(Whole(1), UpFactor(T, sigma, steps))
Growth(T, r, steps) == ExpRate(r * StepLength(T, steps).num)
Discount(T, r, steps) == ExpRate(-r * StepLength(T, steps).num)
Probability(T, r, sigma, steps) ==
    Over(Minus(Growth(T, r, steps), DownFactor(T, sigma, steps)),
         Minus(UpFactor(T, sigma, steps), DownFactor(T, sigma, steps)))

\* stock_tree[j, i] = S * (u ** (i - j)) * (d ** j)
StockNode(S, T, sigma, steps, j, i) ==
    Times(Times(Whole(S), Power(UpFactor(T, sigma, steps), i - j)),
          Power(DownFactor(T, sigma, steps), j))

\* stock_tree - K for a call, K - stock_tree for a put.
Intrinsic(S, K, T, sigma, steps, option_type, j, i) ==
    IF Lower(option_type) = "call"
    THEN Minus(StockNode(S, T, sigma, steps, j, i), Whole(K))
    ELSE Minus(Whole(K), StockNode(S, T, sigma, steps, j, i))

\* "Calculate option value at expiration": column steps of option_tree.
Payoff(S, K, T, sigma, steps, option_type) ==
    [j \in 0..steps |->
        Maximum(Whole(0), Intrinsic(S, K, T, sigma, steps, option_type, j, steps))]

\* math.exp(-r * dt) * (p * option_tree[j, i + 1] + (1 - p) * option_tree[j + 1, i + 1])
Continuation(T, r, sigma, steps, next, j) ==
    LET p == Probability(T, r, sigma, steps)
    IN  Times(Discount(T, r, steps),
              Plus(Times(p, next[j]), Times(Minus(Whole(1), p), next[j + 1])))

\* Node that is exercised early whatever the option is worth when held.
Node_AlwaysExercised(S, K, T, r, sigma, steps, option_type, american, next, j, i) ==
    IF american
    THEN Intrinsic(S, K, T, sigma, steps, option_type, j, i)
    ELSE Continuation(T, r, sigma, steps, next, j)

\* option_tree[j, i] for i < steps, from column i + 1.
Node(S, K, T, r, sigma, steps, option_type, american, next, j, i) ==
    IF american
    THEN Maximum(Continuation(T, r, sigma, steps, next, j),
                 Intrinsic(S, K, T, sigma, steps, option_type, j, i))
    ELSE Continuation(T, r, sigma, steps, next, j)

\* Column i < steps of option_tree, from column i + 1: one pass of the outer
\* loop.  (The rows below row i stay at the zero np.zeros gave them.)
Inducted(S, K, T, r, sigma, steps, option_type, american, next, i) ==
    [j \in 0..i |-> Node(S, K, T, r, sigma, steps, option_type, american, next, j, i)]

\* The exception "Calculate parameters" ends with, or "": T / steps divides by
\* zero; math.sqrt refuses a negative dt; u - d is zero when sigma * sqrt(dt)
\* is.
ParametersError(T, sigma, steps) ==
    IF steps = 0 THEN "ZeroDivisionError"
    ELSE IF T < 0 THEN "ValueError"
    ELSE IF T = 0 \/ sigma = 0 THEN "ZeroDivisionError"
    ELSE ""

\* Where a call stands: not made, left by an exception, in the loop with
\* columns i + 1..steps of option_tree filled, or returned with the price
\* option_tree[0, 0].
NotPriced == [called |-> FALSE]
PriceRaised(e) == [called |-> TRUE, raised |-> TRUE, error |-> e]
Pricing(tree, i) ==
    [called |-> TRUE, raised |-> FALSE, returned |-> FALSE, option_tree |-> tree, i |-> i]
PriceReturned(tree) ==
    [called |-> TRUE, raised |-> FALSE, returned |-> TRUE, option_tree |-> tree,
     price |-> tree[0][0]]

\* No call of the binomial pricer is under way.
NoBinomial ==
    [S |-> 0, K |-> 0, T |-> 0, r |-> 0, sigma |-> 0, steps |-> 0, option_type |-> "call"]
NonePriced == [american \in BOOLEAN |-> NotPriced]

----------------------------------------------------------------------------
(* Backtester instances that were constructed over one and the same series  *)
(* object and run side by side.  A frame is an object: a variable of the    *)
(* program holds a reference to it, DataFrame.copy() makes a new object,    *)
(* and a column or cell assignment writes to the object referred to.        *)

Instances == {1, 2}

\* The references: the shared input series, and the objects the two copy()
\* calls of an instance make.
DataRef == 0
SignalsRef(k) == 2 * k - 1
PortfolioRef(k) == 2 * k
Refs == {DataRef} \cup { SignalsRef(k) : k \in Instances }
                 \cup { PortfolioRef(k) : k \in Instances }
NoRef == -1

\* copy() that hands back the frame it was called on.
copy_SameObject(frame, fresh) == frame

\* frame.copy(): the reference of the new object.
copy(frame, fresh) == fresh

\* The objects after content was copied from object from to object fresh, and
\* after rows were written to the object ref.
Copied(objects, from, fresh) == [objects EXCEPT ![fresh] = objects[from]]
Written(objects, ref, rows) == [objects EXCEPT ![ref] = rows]

NoFrames == [ref \in Refs |-> << >>]
NotConstructed == [pc |-> "none"]
NoRuns == [k \in Instances |-> NotConstructed]

----------------------------------------------------------------------------
Init ==
    /\ \E c \in Constructions :
        /\ strategy = c[1]
        /\ data = c[2]
    /\ columns \in ColumnSets
    /\ "close" \notin columns => data = << >>
    /\ index = IndexOf(columns, Len(data))
    /\ columns \cap IndicatorColumns = {} =>
            \A i \in 1..Len(data) : data[i] = Bar(data[i].close, WarmUp)
    /\ initial_capital \in { a.initial_capital : a \in Accounts }
    /\ position_sizing_method = Unset
    /\ position_sizing_value = 0
    /\ signals = None
    /\ portfolio = None
    /\ t = 0
    /\ pc = "constructed"
    /\ error = ""
    /\ metrics = NotReturned
    /\ trade_returns = << >>
    /\ trade_performance = NoStatistics
    /\ option = NoOption
    /\ greeks = NotCalled
    /\ binomial = NoBinomial
    /\ priced = NonePriced
    /\ frames = NoFrames
    /\ runs = NoRuns

\* set_position_sizing(method, value)
SetPositionSizing ==
    /\ pc = "constructed"
    /\ \E a \in Accounts :
        /\ a.initial_capital = initial_capital
        /\ position_sizing_method' = a.method
        /\ position_sizing_value' = a.value
    /\ UNCHANGED << inputs, pricer, shared, locals, signals, portfolio, t, pc, error, metrics >>

\* run_backtest: generate_signals raises.
SignalsRaise ==
    /\ pc = "constructed"
    /\ generate_signals(strategy, data, columns).raised
    /\ error' = generate_signals(strategy, data, columns).error
    /\ pc' = "raised"
    /\ UNCHANGED << inputs, pricer, shared, locals, sizing, signals, portfolio, t, metrics >>

\* run_backtest: generate_signals returns None, which is stored in
\* self.signals, and self.signals.copy() raises.
SignalsMissing ==
    /\ pc = "constructed"
    /\ ~generate_signals(strategy, data, columns).raised
    /\ generate_signals(strategy, data, columns).frame = None
    /\ signals' = generate_signals(strategy, data, columns).frame
    /\ error' = "AttributeError"
    /\ pc' = "raised"
    /\ UNCHANGED << inputs, pricer, shared, locals, sizing, portfolio, t, metrics >>

\* run_backtest up to the loop: the signals, and the portfolio initialised.
StartBacktest ==
    /\ pc = "constructed"
    /\ ~generate_signals(strategy, data, columns).raised
    /\ generate_signals(strategy, data, columns).frame # None
    /\ signals' = generate_signals(strategy, data, columns).frame
    /\ portfolio' = Frame([i \in 1..Len(signals'.rows) |->
                              InitialRow(signals'.rows[i], initial_capital)])
    /\ t' = 1
    /\ pc' = "bars"
    /\ UNCHANGED << inputs, pricer, shared, locals, sizing, error, metrics >>

\* Rows t-1 and t of the loop body (Python's indices are 0-based).
InLoop == pc = "bars" /\ t < Len(portfolio.rows)
Prev == portfolio.rows[t]
Cur == portfolio.rows[t + 1]

StoreRow ==
    /\ portfolio' = Frame([portfolio.rows EXCEPT ![t + 1] =
            BarStep(Prev, Cur, position_sizing_method, position_sizing_value)])
    /\ t' = t + 1
    /\ UNCHANGED << inputs, pricer, shared, locals, sizing, signals, pc, error, metrics >>

\* A bar without a PositionChange.
HoldBar ==
    /\ InLoop
    /\ ~IsTradeBar(Cur.positions)
    /\ StoreRow

\* A bar with a PositionChange on a Backtester whose sizing was never set:
\* reading self.position_sizing_method raises after the carry-forward.
SizingMissing ==
    /\ InLoop
    /\ IsTradeBar(Cur.positions)
    /\ position_sizing_method = Unset
    /\ portfolio' = Frame([portfolio.rows EXCEPT ![t + 1] = Carry(Prev, Cur)])
    /\ pc' = "raised"
    /\ error' = "AttributeError"
    /\ UNCHANGED << inputs, pricer, shared, locals, sizing, signals, t, metrics >>

BuyBar ==
    /\ InLoop
    /\ IsTradeBar(Cur.positions)
    /\ position_sizing_method # Unset
    /\ IsBuy(Cur.positions)
    /\ StoreRow

SellBar ==
    /\ InLoop
    /\ IsTradeBar(Cur.positions)
    /\ position_sizing_method # Unset
    /\ IsSell(Cur.positions, Prev)
    /\ StoreRow

\* A negative PositionChange without a position to sell.
IdleSellBar ==
    /\ InLoop
    /\ IsTradeBar(Cur.positions)
    /\ position_sizing_method # Unset
    /\ ~IsBuy(Cur.positions)
    /\ ~IsSell(Cur.positions, Prev)
    /\ StoreRow

\* The loop is over: return self.portfolio.
ReturnPortfolio ==
    /\ pc = "bars"
    /\ t >= Len(portfolio.rows)
    /\ pc' = "returned"
    /\ UNCHANGED << inputs, pricer, shared, locals, sizing, signals, portfolio, t, error, metrics >>

\* get_performance_metrics on a freshly constructed Backtester:
\* self.portfolio is None.
MetricsWithoutRun ==
    /\ pc = "constructed"
    /\ position_sizing_method = Unset
    /\ portfolio = None
    /\ metrics' = EmptyDict
    /\ pc' = "metrics_returned"
    /\ UNCHANGED << inputs, pricer, shared, locals, sizing, signals, portfolio, t, error >>

\* get_performance_metrics on an empty history: total.iloc[-1] raises.
MetricsOfEmpty ==
    /\ pc = "returned"
    /\ Len(portfolio.rows) = 0
    /\ pc' = "metrics_raised"
    /\ error' = "IndexError"
    /\ UNCHANGED << inputs, pricer, shared, locals, sizing, signals, portfolio, t, metrics >>

\* get_performance_metrics on a history whose labels are not times: n_days
\* raises before a trade is extracted.
MetricsOfUndated ==
    /\ pc = "returned"
    /\ Len(portfolio.rows) > 0
    /\ DaysRaise(index)
    /\ pc' = "metrics_raised"
    /\ error' = "AttributeError"
    /\ UNCHANGED << inputs, pricer, shared, locals, sizing, signals, portfolio, t, metrics >>

\* get_performance_metrics on a dated history: the statistics are computed,
\* and the return statement raises or returns.
MetricsOfRun ==
    /\ pc = "returned"
    /\ Len(portfolio.rows) > 0
    /\ ~DaysRaise(index)
    /\ trade_returns' = TradeReturns(portfolio.rows, index.labels)
    /\ trade_performance' = TradePerformanceUpdated(portfolio.rows, index.labels)
    /\ LET d == MetricsDict(portfolio.rows, index.labels, initial_capital)
       IN  IF SubscriptRaises(d, "close")
           THEN /\ pc' = "metrics_raised"
                /\ error' = "KeyError"
                /\ UNCHANGED metrics
           ELSE /\ pc' = "metrics_returned"
                /\ metrics' = ReturnedDict(d)
                /\ UNCHANGED error
    /\ UNCHANGED << inputs, pricer, shared, sizing, signals, portfolio, t >>

Next ==
    \/ SetPositionSizing
    \/ SignalsRaise
    \/ SignalsMissing
    \/ StartBacktest
    \/ HoldBar
    \/ SizingMissing
    \/ BuyBar
    \/ SellBar
    \/ IdleSellBar
    \/ ReturnPortfolio
    \/ MetricsWithoutRun
    \/ MetricsOfEmpty
    \/ MetricsOfUndated
    \/ MetricsOfRun

Spec == Init /\ [][Next]_vars

----------------------------------------------------------------------------
(* The backtests whose trades get_performance_metrics extracts: RSIStrategy  *)
(* over longer series of bars with a defined RSI, on a Backtester that was   *)
(* constructed and given its position sizing (dash_app.py lines 315-316).    *)

\* Longest series of these backtests.
MaxHistory == 5

DefinedBars == { Bar(c, ind) : c \in Prices, ind \in IndicatorRows \ {WarmUp} }

Histories == UNION { [1..k -> DefinedBars] : k \in 0..MaxHistory }

\* The indexes of a series of n bars: daily, weekly and one-minute bars, the
\* longest series being run on daily bars alone.
Calendars(n) ==
    IF n < MaxHistory THEN {DailyBars(n), WeeklyBars(n), MinuteBars(n)}
    ELSE {DailyBars(n)}

MetricsInit ==
    /\ strategy = "rsi"
    /\ data \in Histories
    /\ columns = {"close"} \cup IndicatorColumns
    /\ index \in Calendars(Len(data))
    /\ \E a \in Accounts :
        /\ a.method = "fixed_shares"
        /\ initial_capital = a.initial_capital
        /\ position_sizing_method = a.method
        /\ position_sizing_value = a.value
    /\ signals = None
    /\ portfolio = None
    /\ t = 0
    /\ pc = "constructed"
    /\ error = ""
    /\ metrics = NotReturned
    /\ trade_returns = << >>
    /\ trade_performance = NoStatistics
    /\ option = NoOption
    /\ greeks = NotCalled
    /\ binomial = NoBinomial
    /\ priced = NonePriced
    /\ frames = NoFrames
    /\ runs = NoRuns

MetricsNext ==
    \/ StartBacktest
    \/ HoldBar
    \/ BuyBar
    \/ SellBar
    \/ IdleSellBar
    \/ ReturnPortfolio
    \/ MetricsOfEmpty
    \/ MetricsOfRun

MetricsSpec == MetricsInit /\ [][MetricsNext]_vars

----------------------------------------------------------------------------
(* The backtests of MACDStrategy over the longer series, on the small       *)
(* account sized by a percentage of the portfolio total.                    *)

CrossInit ==
    /\ strategy = "macd"
    /\ data \in Histories
    /\ columns = {"close"} \cup IndicatorColumns
    /\ index = IndexOf(columns, Len(data))
    /\ \E a \in Accounts :
        /\ a.method = "percentage"
        /\ initial_capital = a.initial_capital
        /\ position_sizing_method = a.method
        /\ position_sizing_value = a.value
    /\ signals = None
    /\ portfolio = None
    /\ t = 0
    /\ pc = "constructed"
    /\ error = ""
    /\ metrics = NotReturned
    /\ trade_returns = << >>
    /\ trade_performance = NoStatistics
    /\ option = NoOption
    /\ greeks = NotCalled
    /\ binomial = NoBinomial
    /\ priced = NonePriced
    /\ frames = NoFrames
    /\ runs = NoRuns

CrossNext ==
    \/ StartBacktest
    \/ HoldBar
    \/ BuyBar
    \/ SellBar
    \/ IdleSellBar
    \/ ReturnPortfolio

CrossSpec == CrossInit /\ [][CrossNext]_vars

----------------------------------------------------------------------------
(* The backtests of RSIStrategy on accounts sized by a percentage that is   *)
(* not a binary fraction, where the float64 product of the sizing is not    *)
(* exact.                                                                   *)

\* Longest price series of these backtests.
MaxSizedBars == 3

FractionAccounts ==
    { [initial_capital |-> 700, method |-> "percentage", value |-> 70],
      [initial_capital |-> 1300, method |-> "fixed_risk", value |-> 70] }

SizingInit ==
    /\ strategy = "rsi"
    /\ data \in SeriesUpTo(MaxSizedBars)
    /\ columns = {"close"} \cup IndicatorColumns
    /\ index = IndexOf(columns, Len(data))
    /\ \E a \in FractionAccounts :
        /\ initial_capital = a.initial_capital
        /\ position_sizing_method = a.method
        /\ position_sizing_value = a.value
    /\ signals = None
    /\ portfolio = None
    /\ t = 0
    /\ pc = "constructed"
    /\ error = ""
    /\ metrics = NotReturned
    /\ trade_returns = << >>
    /\ trade_performance = NoStatistics
    /\ option = NoOption
    /\ greeks = NotCalled
    /\ binomial = NoBinomial
    /\ priced = NonePriced
    /\ frames = NoFrames
    /\ runs = NoRuns

SizingNext ==
    \/ StartBacktest
    \/ HoldBar
    \/ BuyBar
    \/ SellBar
    \/ IdleSellBar
    \/ ReturnPortfolio

SizingSpec == SizingInit /\ [][SizingNext]_vars

----------------------------------------------------------------------------
(* Calls of black_scholes_greeks, which reads and writes nothing but its    *)
(* arguments and its answer; no Backtester is involved.                     *)

\* Largest price, strike, expiry and volatility the pricer is called with.
MaxInput == 2

\* The arguments tried: the whole numbers about zero, and the two floats
\* 1e-250 and 1e250, whose squares, quotient and products leave the range
\* of a float64.  The rates: -1000, under which math.exp(-r * T) overflows;
\* -705, under which exp(-r * T) is a float and r * K * exp(-r * T) is not;
\* zero and one.
Tiny == Decimal(1, -250)
Huge == Decimal(1, 250)
Inputs == { FloatOf(n) : n \in -1..MaxInput } \cup {Tiny, Huge}
Rates == { FloatOf(n) : n \in {-1000, -705, 0, 1} }
OptionTypes == {"call", "put", "CALL"}

GreeksInit ==
    /\ option \in [S : Inputs, K : Inputs, T : Inputs, r : Rates, sigma : Inputs,
                   option_type : OptionTypes]
    /\ greeks = NotCalled
    /\ binomial = NoBinomial
    /\ priced = NonePriced
    /\ frames = NoFrames
    /\ runs = NoRuns
    /\ data = << >>
    /\ columns = {}
    /\ index = IndexOf(columns, Len(data))
    /\ strategy = "rsi"
    /\ initial_capital = 0
    /\ position_sizing_method = Unset
    /\ position_sizing_value = 0
    /\ signals = None
    /\ portfolio = None
    /\ t = 0
    /\ pc = "no backtest"
    /\ error = ""
    /\ metrics = NotReturned
    /\ trade_returns = << >>
    /\ trade_performance = NoStatistics

BlackScholesGreeks ==
    /\ greeks = NotCalled
    /\ greeks' = black_scholes_greeks(option.S, option.K, option.T, option.r,
                                      option.sigma, option.option_type)
    /\ UNCHANGED << inputs, option, binomial, priced, shared, locals, sizing,
                    signals, portfolio, t, pc, error, metrics >>

GreeksNext == BlackScholesGreeks

GreeksSpec == GreeksInit /\ [][GreeksNext]_vars

----------------------------------------------------------------------------
(* Calls of binomial_option_price, which like black_scholes_greeks reads    *)
(* and writes nothing but its arguments, its local trees and its answer.    *)

\* Largest number of time steps of a tree.
MaxSteps == 3

Spots == {3, 4}
Strikes == {2, 5}
BinomialRates == -2..2
Volatilities == -1..1

\* The expiries a tree of the given number of steps is asked for: a negative
\* one, none, and the one that makes a step a year long.
Expiries(steps) == {-1, 0, steps}

BinomialCalls ==
    { o \in [S : Spots, K : Strikes, T : -1..MaxSteps, r : BinomialRates,
             sigma : Volatilities, steps : 0..MaxSteps,
             option_type : {"call", "put"}] :
        o.T \in Expiries(o.steps) }

BinomialInit ==
    /\ binomial \in BinomialCalls
    /\ priced = NonePriced
    /\ option = NoOption
    /\ greeks = NotCalled
    /\ data = << >>
    /\ columns = {}
    /\ index = IndexOf(columns, Len(data))
    /\ strategy = "rsi"
    /\ initial_capital = 0
    /\ position_sizing_method = Unset
    /\ position_sizing_value = 0
    /\ signals = None
    /\ portfolio = None
    /\ t = 0
    /\ pc = "no backtest"
    /\ error = ""
    /\ metrics = NotReturned
    /\ trade_returns = << >>
    /\ trade_performance = NoStatistics
    /\ frames = NoFrames
    /\ runs = NoRuns

binomial_only == << inputs, option, greeks, binomial, shared, locals, sizing,
                    signals, portfolio, t, pc, error, metrics >>

\* binomial_option_price(..., american): "Calculate parameters" raises.
BinomialParametersRaise(american) ==
    /\ priced[american] = NotPriced
    /\ ParametersError(binomial.T, binomial.sigma, binomial.steps) # ""
    /\ priced' = [priced EXCEPT ![american] =
            PriceRaised(ParametersError(binomial.T, binomial.sigma, binomial.steps))]
    /\ UNCHANGED binomial_only

\* The call up to the backward induction: the parameters, the stock tree and
\* the option values at expiration.
BinomialExpiration(american) ==
    /\ priced[american] = NotPriced
    /\ ParametersError(binomial.T, binomial.sigma, binomial.steps) = ""
    /\ priced' = [priced EXCEPT ![american] =
            Pricing([c \in {binomial.steps} |->
                        Payoff(binomial.S, binomial.K, binomial.T, binomial.sigma,
                               binomial.steps, binomial.option_type)],
                    binomial.steps - 1)]
    /\ UNCHANGED binomial_only

InInduction(american) ==
    /\ priced[american].called
    /\ ~priced[american].raised
    /\ ~priced[american].returned

\* One pass of "for i in range(steps - 1, -1, -1)".
BinomialInduct(american) ==
    /\ InInduction(american)
    /\ priced[american].i >= 0
    /\ LET i == priced[american].i
           tree == priced[american].option_tree
           column == Inducted(binomial.S, binomial.K, binomial.T, binomial.r,
                              binomial.sigma, binomial.steps, binomial.option_type,
                              american, tree[i + 1], i)
       IN  priced' = [priced EXCEPT ![american] =
               Pricing([c \in i..binomial.steps |-> IF c = i THEN column ELSE tree[c]],
                       i - 1)]
    /\ UNCHANGED binomial_only

\* return option_tree[0, 0]
BinomialReturn(american) ==
    /\ InInduction(american)
    /\ priced[american].i < 0
    /\ priced' = [priced EXCEPT ![american] = PriceReturned(priced[american].option_tree)]
    /\ UNCHANGED binomial_only

BinomialNext ==
    \E american \in BOOLEAN :
        \/ BinomialParametersRaise(american)
        \/ BinomialExpiration(american)
        \/ BinomialInduct(american)
        \/ BinomialReturn(american)

BinomialSpec == BinomialInit /\ [][BinomialNext]_vars

----------------------------------------------------------------------------
(* Two backtests over one shared series: each instance was constructed and  *)
(* given its position sizing, and their steps interleave.                   *)

\* Longest shared series.
MaxSharedBars == 3

SharedBars == { Bar(c, ind) : c \in Prices,
                ind \in { r \in IndicatorRows : r.RSI \in {20, 80} } }
SharedSeries == UNION { [1..k -> SharedBars] : k \in 0..MaxSharedBars }

\* The instances of a sweep: RSIStrategy or MACDStrategy on the small account,
\* sized by a share count or by a percentage.
Sweep ==
    { [pc |-> "constructed", strategy |-> s, initial_capital |-> a.initial_capital,
       position_sizing_method |-> a.method, position_sizing_value |-> a.value,
       signals |-> NoRef, portfolio |-> NoRef, t |-> 0] :
        s \in {"rsi", "macd"},
        a \in { b \in Accounts : b.method \in {"fixed_shares", "percentage"} } }

SharedInit ==
    /\ data \in SharedSeries
    /\ columns = {"close"} \cup IndicatorColumns
    /\ index = IndexOf(columns, Len(data))
    /\ frames = [ref \in Refs |-> IF ref = DataRef THEN data ELSE << >>]
    /\ runs \in [Instances -> Sweep]
    /\ strategy = "rsi"
    /\ initial_capital = 0
    /\ position_sizing_method = Unset
    /\ position_sizing_value = 0
    /\ signals = None
    /\ portfolio = None
    /\ t = 0
    /\ pc = "no backtest"
    /\ error = ""
    /\ metrics = NotReturned
    /\ trade_returns = << >>
    /\ trade_performance = NoStatistics
    /\ option = NoOption
    /\ greeks = NotCalled
    /\ binomial = NoBinomial
    /\ priced = NonePriced

shared_only == << inputs, pricer, locals, sizing, signals, portfolio, t, pc, error,
                 metrics >>

\* run_backtest of instance k up to its loop: generate_signals works on
\* data.copy(), the portfolio is signals.copy() with its columns initialised.
SharedStart(k) ==
    /\ runs[k].pc = "constructed"
    /\ LET s == copy(DataRef, SignalsRef(k))
           copied == Copied(frames, DataRef, SignalsRef(k))
           signalled == Written(copied, s,
               generate_signals(runs[k].strategy, copied[s], columns).frame.rows)
           p == copy(s, PortfolioRef(k))
           copied2 == Copied(signalled, s, PortfolioRef(k))
       IN  /\ frames' = Written(copied2, p,
                   [i \in 1..Len(copied2[p]) |->
                       InitialRow(copied2[p][i], runs[k].initial_capital)])
           /\ runs' = [runs EXCEPT ![k].signals = s, ![k].portfolio = p,
                                   ![k].t = 1, ![k].pc = "bars"]
    /\ UNCHANGED shared_only

\* One pass of the loop of instance k: row t is written to its portfolio.
SharedBar(k) ==
    /\ runs[k].pc = "bars"
    /\ runs[k].t < Len(frames[runs[k].portfolio])
    /\ LET rows == frames[runs[k].portfolio]
           row == BarStep(rows[runs[k].t], rows[runs[k].t + 1],
                          runs[k].position_sizing_method, runs[k].position_sizing_value)
       IN  frames' = Written(frames, runs[k].portfolio,
                             [rows EXCEPT ![runs[k].t + 1] = row])
    /\ runs' = [runs EXCEPT ![k].t = @ + 1]
    /\ UNCHANGED shared_only

\* The loop of instance k is over: return self.portfolio.
SharedReturn(k) ==
    /\ runs[k].pc = "bars"
    /\ runs[k].t >= Len(frames[runs[k].portfolio])
    /\ runs' = [runs EXCEPT ![k].pc = "returned"]
    /\ UNCHANGED << frames, shared_only >>

SharedNext ==
    \E k \in Instances :
        \/ SharedStart(k)
        \/ SharedBar(k)
        \/ SharedReturn(k)

SharedSpec == SharedInit /\ [][SharedNext]_vars

----------------------------------------------------------------------------
(* Properties of the portfolio history.                                     *)

\* The rows of self.portfolio (none while it is None).
Rows == IF portfolio = None THEN << >> ELSE portfolio.rows

\* Rows (1-based; row i is bar i-1) that the loop has finished.
Finished == { i \in 2..Len(Rows) : i <= t }

\* run_backtest returned its portfolio to the caller.
HasReturned == portfolio # None /\ pc \in {"returned", "metrics_raised", "metrics_returned"}

\* The share count run_backtest sizes at row i.
SharesAt(i) ==
    Shares(position_sizing_method, position_sizing_value, Rows[i].close, Rows[i - 1])

\* C1: in every state in which run_backtest has not raised, and so after it
\* has returned, every row of the portfolio history, bar 0 included, has
\* holdings = position * close and total = holdings + cash.
C1_TotalIsHoldingsPlusCash ==
    pc # "raised" =>
        \A i \in 1..Len(Rows) :
            /\ Rows[i].holdings = Rows[i].position * Rows[i].close * Milli
            /\ Rows[i].total = Rows[i].holdings + Rows[i].cash

\* A returned history in which shares were bought at one bar and sold at a
\* later one.
C1_Witness ==
    /\ HasReturned
    /\ \E i \in Finished : \E j \in Finished :
        /\ i < j
        /\ Rows[i].position > Rows[i - 1].position
        /\ Rows[j].position < Rows[j - 1].position
        /\ Rows[j].position > 0

\* C2: the position is never negative, at any bar of any history.
C2_PositionNeverNegative ==
    \A i \in 1..Len(Rows) : Rows[i].position >= 0

\* C3: at every finished bar with a positive PositionChange the position grows
\* by the sized share count and the cash falls by shares * close * (1 +
\* commission); with initial_capital = 100000 and fixed_dollar sizing of 10000
\* a first buy at close 50 buys 200 shares and leaves 89990 in cash.
C3_BuyBar ==
    \A i \in Finished :
        Gt(Rows[i].positions, 0) =>
            /\ Rows[i].position = Rows[i - 1].position + SharesAt(i)
            /\ Rows[i].cash =
                   Rows[i - 1].cash - SharesAt(i) * Rows[i].close * (Milli + commission)
            /\ ( /\ initial_capital = 100000
                 /\ position_sizing_method = "fixed_dollar"
                 /\ position_sizing_value = 10000
                 /\ Rows[i].close = 50
                 /\ Rows[i - 1].position = 0
                 /\ Rows[i - 1].cash = initial_capital * Milli )
               => (Rows[i].position = 200 /\ Rows[i].cash = 89990 * Milli)

\* The scenario of the claim: a returned history whose single buy is at close 50.
C3_Witness ==
    /\ HasReturned
    /\ initial_capital = 100000
    /\ position_sizing_method = "fixed_dollar"
    /\ position_sizing_value = 10000
    /\ \E i \in Finished :
        /\ Gt(Rows[i].positions, 0)
        /\ Rows[i].close = 50
        /\ Rows[i].position = 200
        /\ Rows[i].cash = 89990 * Milli
        /\ \A j \in Finished : j # i => ~Ne(Rows[j].positions, 0)

\* C4: at every finished bar with a negative PositionChange and a position
\* held at the bar before, min(shares, position[t-1]) shares are sold and the
\* cash grows by sold * close * (1 - commission).
C4_SellBar ==
    \A i \in Finished :
        (Lt(Rows[i].positions, 0) /\ Rows[i - 1].position > 0) =>
            LET sold == Min(SharesAt(i), Rows[i - 1].position)
            IN  /\ Rows[i].position = Rows[i - 1].position - sold
                /\ Rows[i].cash = Rows[i - 1].cash + sold * Rows[i].close * (Milli - commission)

\* A sale of more shares than are held, which the position held caps.
C4_Witness ==
    /\ HasReturned
    /\ \E i \in Finished :
        /\ Lt(Rows[i].positions, 0)
        /\ Rows[i - 1].position > 0
        /\ SharesAt(i) > Rows[i - 1].position
        /\ Rows[i].position = 0
        /\ Rows[i].cash > Rows[i - 1].cash

\* C5: a finished bar with a negative PositionChange and no position at the
\* bar before leaves the position at zero and the cash as it was.
C5_SellWhileFlat ==
    \A i \in Finished :
        (Lt(Rows[i].positions, 0) /\ Rows[i - 1].position = 0) =>
            /\ Rows[i].position = 0
            /\ Rows[i].cash = Rows[i - 1].cash

\* A sell signal arriving after the position bought earlier was sold off.
C5_Witness ==
    /\ HasReturned
    /\ \E i \in Finished :
        /\ Lt(Rows[i].positions, 0)
        /\ Rows[i - 1].position = 0
        /\ Rows[i].position = 0
        /\ Rows[i].cash = Rows[i - 1].cash
        /\ Rows[i].cash # initial_capital * Milli

\* C6: a finished bar whose PositionChange is 0 carries position and cash
\* forward, and recomputes holdings, total and period return from its close.
C6_HoldBar ==
    \A i \in Finished :
        ~Ne(Rows[i].positions, 0) =>
            /\ Rows[i].position = Rows[i - 1].position
            /\ Rows[i].cash = Rows[i - 1].cash
            /\ Rows[i].holdings = Rows[i - 1].position * Rows[i].close * Milli
            /\ Rows[i].total = Rows[i].holdings + Rows[i - 1].cash
            /\ Rows[i].returns =
                   Ratio(Rows[i].total - Rows[i - 1].total, Rows[i - 1].total)

\* A bar without a PositionChange at which a position is held and the close
\* has moved.
C6_Witness ==
    /\ HasReturned
    /\ \E i \in Finished :
        /\ ~Ne(Rows[i].positions, 0)
        /\ Rows[i].position > 0
        /\ Rows[i].cash # initial_capital * Milli
        /\ Rows[i].close # Rows[i - 1].close
        /\ Rows[i].holdings # Rows[i - 1].holdings

\* C7: whenever there is a portfolio history, it has one row per input bar,
\* in input order, and its row 0 has no position, no holdings, the initial
\* capital as cash and as total, and a period return of 0.
C7_RowZero ==
    portfolio # None =>
        /\ Len(Rows) = Len(data)
        /\ \A i \in 1..Len(Rows) : Rows[i].close = data[i].close
        /\ Len(Rows) >= 1 =>
            /\ Rows[1].position = 0
            /\ Rows[1].holdings = 0
            /\ Rows[1].cash = initial_capital * Milli
            /\ Rows[1].total = initial_capital * Milli
            /\ Rows[1].returns.num = 0
            /\ Rows[1].returns.den # 0

\* A returned history of several bars whose bar 0 carries a buy signal, and in
\* which a later bar traded.
C7_Witness ==
    /\ HasReturned
    /\ Len(Rows) >= 3
    /\ Rows[1].signal = 1
    /\ Rows[1].close # Rows[2].close
    /\ \E i \in Finished : Rows[i].position # 0

\* C8: under a sizing method key that is none of the four known ones no bar
\* with a PositionChange is ever sized and finished: the configuration has
\* been refused by then.
C8_UnknownMethodFailsFast ==
    (position_sizing_method \notin KnownMethods /\ position_sizing_method # Unset) =>
        \A i \in Finished : ~Ne(Rows[i].positions, 0)

\* A series of equal closes, with the indicator columns such a series has.
IsFlat(d) ==
    /\ Len(d) >= 2
    /\ \A i \in 1..Len(d) : d[i].close = d[1].close /\ d[i].RSI = NaN
                            /\ d[i].MACD = NaN /\ d[i].Signal = NaN

\* The caller of run_backtest and get_performance_metrics has its answer.
Answered ==
    \/ pc = "raised"
    \/ pc \in {"metrics_raised", "metrics_returned"} /\ portfolio # None

\* C9: the backtest of a flat series, under every strategy and sizing method,
\* ends with a history without a PositionChange and with total equal to the
\* initial capital at every bar, and with metrics whose total_return is 0.
C9_FlatSeriesReturnsZero ==
    (IsFlat(data) /\ Answered) =>
        /\ HasReturned
        /\ \A i \in 1..Len(Rows) :
            /\ ~Gt(Rows[i].positions, 0)
            /\ ~Lt(Rows[i].positions, 0)
            /\ Rows[i].total = initial_capital * Milli
        /\ metrics # NotReturned
        /\ metrics.value.total_return.num = 0

\* C10: once generate_signals has been called, the positions column it
\* returned is 0 at the first bar and signal[t] - signal[t-1] at every other.
C10_PositionsAreFirstDifference ==
    (pc # "constructed" /\ (pc = "metrics_returned" => portfolio # None)) =>
        /\ signals # None
        /\ \A i \in 1..Len(signals.rows) :
            signals.rows[i].positions =
                IF i = 1 THEN 0 ELSE signals.rows[i].signal - signals.rows[i - 1].signal

----------------------------------------------------------------------------
(* Properties of the strategies.                                            *)

\* generate_signals has returned its frame to run_backtest.
HasSignals == signals # None

\* The RSI column of d, after its warm-up, rises from below oversold through
\* the neutral band to above overbought, never falling on the way.
RSIRises(d) ==
    /\ \A i \in 1..Len(d) : \A j \in i..Len(d) :
           (d[i].RSI # NaN) => Le(d[i].RSI, d[j].RSI)
    /\ \E i \in 1..Len(d) : \E j \in 1..Len(d) : \E k \in 1..Len(d) :
        /\ i < j /\ j < k /\ k = Len(d)
        /\ Lt(d[i].RSI, oversold)
        /\ Ge(d[j].RSI, oversold) /\ Le(d[j].RSI, overbought)
        /\ Gt(d[k].RSI, overbought)
        /\ \A h \in 1..(i - 1) : d[h].RSI = NaN

\* C11: RSIStrategy with oversold = 30 and overbought = 70, on a series whose
\* RSI rises from 20 through the neutral band to 80, returns a positions
\* column with exactly one positive entry and exactly one negative entry, the
\* positive one first.
C11_OneBuyThenOneSell ==
    (strategy = "rsi" /\ HasSignals /\ RSIRises(data)) =>
        /\ Cardinality(BuyTrades(signals.rows)) = 1
        /\ Cardinality(SellTrades(signals.rows)) = 1
        /\ \A b \in BuyTrades(signals.rows) : \A s \in SellTrades(signals.rows) : b < s

\* run_backtest has been called, and so has the strategy's generate_signals.
RunBacktestCalled ==
    pc # "constructed" /\ ~(pc = "metrics_returned" /\ portfolio = None)

\* close.rolling(window).mean() at row i, as the sum of the window (the mean
\* times the window); it is undefined on the first window - 1 rows.
RECURSIVE RollingSum(_, _, _)
RollingSum(d, i, window) ==
    IF window = 0 THEN 0 ELSE d[i].close + RollingSum(d, i - 1, window - 1)

BothDefined(i, short, long) == i >= short /\ i >= long
ShortAboveLong(d, i, short, long) ==
    /\ BothDefined(i, short, long)
    /\ RollingSum(d, i, short) * long > RollingSum(d, i, long) * short
ShortBelowLong(d, i, short, long) ==
    /\ BothDefined(i, short, long)
    /\ RollingSum(d, i, short) * long < RollingSum(d, i, long) * short

\* C12: MovingAverageCrossStrategy(short_window=2, long_window=3) on the closes
\* 10, 11, ..., 19 returns a signal series; the short average is above the long
\* one at every bar where both are defined, and the positions column has
\* exactly one positive entry and no negative one.
C12_RisingClosesSingleBuy ==
    (strategy = "ma_cross" /\ data = RisingCloses /\ RunBacktestCalled) =>
        /\ HasSignals
        /\ \A i \in 1..Len(data) :
               BothDefined(i, 2, 3) => ShortAboveLong(data, i, 2, 3)
        /\ Cardinality(BuyTrades(signals.rows)) = 1
        /\ SellTrades(signals.rows) = {}

\* C13: MACDStrategy's signal is 1 exactly at the bars where MACD is above
\* Signal and was not above it at the bar before, -1 exactly at the bars where
\* it is below and was not below at the bar before, and 0 at every other bar,
\* so at every bar where MACD is on the same side of Signal as at the bar
\* before.
C13_MACDEdgeTriggered ==
    (strategy = "macd" /\ HasSignals) =>
        \A i \in 1..Len(signals.rows) :
            LET cur == signals.rows[i]
                known == /\ i > 1
                         /\ cur.MACD # NaN /\ cur.Signal # NaN
                         /\ signals.rows[i - 1].MACD # NaN
                         /\ signals.rows[i - 1].Signal # NaN
                before == signals.rows[i - 1]
                up == known /\ cur.MACD > cur.Signal /\ before.MACD <= before.Signal
                down == known /\ cur.MACD < cur.Signal /\ before.MACD >= before.Signal
                same == known /\ ( \/ cur.MACD > cur.Signal /\ before.MACD > before.Signal
                                   \/ cur.MACD < cur.Signal /\ before.MACD < before.Signal )
            IN  /\ (cur.signal = 1) <=> up
                /\ (cur.signal = -1) <=> down
                /\ (~up /\ ~down) => cur.signal = 0
                /\ same => cur.signal = 0

\* A MACD that crosses above its signal line and stays above it at the next
\* bar: the signal is 1 at the cross and back to 0 after it.
C13_Witness ==
    /\ strategy = "macd"
    /\ HasSignals
    /\ \E i \in 2..Len(signals.rows) :
        /\ signals.rows[i - 1].signal = 1
        /\ Gt(signals.rows[i].MACD, signals.rows[i].Signal)
        /\ signals.rows[i].signal = 0
        /\ signals.rows[i].positions = -1

\* C14: on a frame without the indicator columns every strategy's
\* generate_signals returns its signals: it computes the missing columns and
\* neither reads an absent column nor fails.
C14_MissingColumnsEnsured ==
    (columns \cap IndicatorColumns = {} /\ RunBacktestCalled) => HasSignals

\* MAWithRSIStrategy's default windows and thresholds.
short_window == 20
long_window == 50
rsi_buy == 30
rsi_sell == 70

\* C15: MAWithRSIStrategy.generate_signals returns a signal series that is 1
\* only where short_ma > long_ma and RSI < rsi_buy, -1 only where
\* short_ma < long_ma and RSI > rsi_sell, and 0 where neither holds, with
\* positions its first difference.
C15_MAWithRSISignals ==
    (strategy = "ma_rsi" /\ RunBacktestCalled) =>
        /\ HasSignals
        /\ \A i \in 1..Len(signals.rows) :
            LET cur == signals.rows[i]
                buy == /\ ShortAboveLong(data, i, short_window, long_window)
                       /\ Lt(cur.RSI, rsi_buy)
                sell == /\ ShortBelowLong(data, i, short_window, long_window)
                        /\ Gt(cur.RSI, rsi_sell)
            IN  /\ cur.signal = 1 => buy
                /\ cur.signal = -1 => sell
                /\ (~buy /\ ~sell) => cur.signal = 0
                /\ i > 1 => cur.positions = cur.signal - signals.rows[i - 1].signal

----------------------------------------------------------------------------
(* Properties of get_performance_metrics.                                   *)

\* get_performance_metrics has computed its statistics over a history of at
\* least one bar and has reached its return statement.
MetricsComputed ==
    /\ pc \in {"metrics_raised", "metrics_returned"}
    /\ portfolio # None
    /\ Len(Rows) > 0
    /\ ~DaysRaise(index)

\* The row of the history that bears the label time.
RowAt(time) == CHOOSE i \in 1..Len(index.labels) : index.labels[i] = time

\* The bar at which the trade before trade k was closed (0 before the first).
ExitBefore(k) == IF k = 1 THEN 0 ELSE RowAt(trade_returns[k - 1].exit_time)

\* C16: the extracted trades are opened by a positive PositionChange met while
\* no trade is open (the first one after the trade before was closed) and
\* closed by the next negative one; positive changes met while a trade is open
\* and negative ones met while none is open open and close nothing.  So the
\* trades do not overlap: entry_time < exit_time, each exit is no later than
\* the next entry, and there are at most min(#buy changes, #sell changes).
C16_TradesNeverOverlap ==
    MetricsComputed =>
        LET buys == BuyTrades(Rows)
            sells == SellTrades(Rows)
        IN  /\ Len(trade_returns) <= Min(Cardinality(buys), Cardinality(sells))
            /\ \A k \in 1..Len(trade_returns) :
                LET tr == trade_returns[k]
                    entry == RowAt(tr.entry_time)
                    exit == RowAt(tr.exit_time)
                IN  /\ entry \in buys
                    /\ exit \in sells
                    /\ tr.entry_time < tr.exit_time
                    /\ entry < exit
                    /\ ExitBefore(k) <= entry
                    /\ tr.entry_price = Rows[entry].close
                    /\ tr.exit_price = Rows[exit].close
                    /\ \A j \in buys : ~(ExitBefore(k) < j /\ j < entry)
                    /\ \A j \in sells : ~(entry < j /\ j < exit)

\* A history from which two trades are extracted, one after the other.
C16_Witness ==
    /\ MetricsComputed
    /\ Len(trade_returns) = 2
    /\ trade_returns[1].entry_time < trade_returns[1].exit_time
    /\ trade_returns[1].exit_time < trade_returns[2].entry_time
    /\ trade_returns[2].entry_time < trade_returns[2].exit_time

\* C17: after run_backtest on a series of at least one bar,
\* get_performance_metrics returns a record with the fields total_return,
\* annualized_return, sharpe_ratio, max_drawdown, final_equity and
\* trade_metrics, in which final_equity is the total at the last bar and
\* total_return is final_equity / initial_capital - 1 (in percent).
C17_MetricsRecord ==
    MetricsComputed =>
        /\ metrics # NotReturned
        /\ DOMAIN metrics.value =
               {"total_return", "annualized_return", "sharpe_ratio", "max_drawdown",
                "final_equity", "trade_metrics"}
        /\ metrics.value.final_equity = Rows[Len(Rows)].total
        /\ metrics.value.total_return =
               Ratio(metrics.value.final_equity - initial_capital * Milli,
                     initial_capital * Milli)

\* Fractions as IEEE-754 numbers: n / 0 is infinite for n > 0 and not a number
\* for n = 0, and not-a-number equals nothing.
IsInfinite(x) == x.den = 0 /\ x.num > 0
IsUndefined(x) == x.den = 0 /\ x.num = 0
SameNumber(x, y) ==
    IF x.den = 0 \/ y.den = 0
    THEN IsInfinite(x) /\ IsInfinite(y)
    ELSE x.num * y.den = y.num * x.den

\* |avg_win * winCount / (avg_loss * lossCount)| of the statistics tp.
WinLossQuotient(tp) ==
    Ratio(Abs(tp.avg_win.num * tp.winning_trades * tp.avg_loss.den),
          Abs(tp.avg_loss.num * tp.losing_trades * tp.avg_win.den))

Losers == { k \in 1..Len(trade_returns) : trade_returns[k].return <= 0 }
Winners == { k \in 1..Len(trade_returns) : trade_returns[k].return > 0 }

\* C18 as claimed: with at least one extracted trade, profit_factor is
\* +infinity if no trade has return <= 0 and otherwise equals
\* |avg_win * winCount / (avg_loss * lossCount)|; it is not 0 where that
\* quotient is undefined; winCount + lossCount is the number of trades.
C18_ProfitFactor ==
    (MetricsComputed /\ trade_returns # << >>) =>
        LET tp == trade_performance
        IN  /\ tp.winning_trades = Cardinality(Winners)
            /\ tp.losing_trades = Cardinality(Losers)
            /\ tp.winning_trades + tp.losing_trades = Len(trade_returns)
            /\ Losers = {} => IsInfinite(tp.profit_factor)
            /\ Losers # {} => SameNumber(tp.profit_factor, WinLossQuotient(tp))
            /\ IsUndefined(WinLossQuotient(tp)) => tp.profit_factor # Zero

\* C18 as amended: profit_factor is +infinity if there are no losing trades or
\* the losing trades all returned exactly 0 (their average is not negative),
\* and otherwise equals |avg_win * winCount / (avg_loss * lossCount)|.
C18_ProfitFactorAmended ==
    (MetricsComputed /\ trade_returns # << >>) =>
        LET tp == trade_performance
            flat == \A k \in Losers : trade_returns[k].return = 0
        IN  /\ tp.winning_trades = Cardinality(Winners)
            /\ tp.losing_trades = Cardinality(Losers)
            /\ tp.winning_trades + tp.losing_trades = Len(trade_returns)
            /\ flat => tp.profit_factor = Infinity
            /\ ~flat => /\ tp.profit_factor.den # 0
                        /\ SameNumber(tp.profit_factor, WinLossQuotient(tp))
            /\ (tp.profit_factor.num = 0) => (~flat /\ Winners = {})

\* A winning trade and a losing one: 10 -> 50 returns 400 percent, 50 -> 10
\* returns -80 percent, and the profit factor is 5.
C18_Witness ==
    /\ MetricsComputed
    /\ Cardinality(Winners) = 1
    /\ Cardinality(Losers) = 1
    /\ trade_performance.avg_win = Ratio(400, 1)
    /\ trade_performance.avg_loss = Ratio(-80, 1)
    /\ SameNumber(trade_performance.profit_factor, Ratio(5, 1))

----------------------------------------------------------------------------
(* Properties of black_scholes_greeks.                                      *)

OutputNames == {"delta", "gamma", "theta", "vega", "rho", "price"}
IsNumber(x) == ~x.nan /\ x.finite
SixNaN(o) == DOMAIN o = OutputNames /\ \A n \in OutputNames : o[n].nan
SixNumbers(o) == DOMAIN o = OutputNames /\ \A n \in OutputNames : IsNumber(o[n])

\* T <= 0 or sigma <= 0 or S <= 0 or K <= 0, of the arguments of the call.
DegenerateOption ==
    \/ NotPositive(option.T) \/ NotPositive(option.sigma)
    \/ NotPositive(option.S) \/ NotPositive(option.K)

NoMoreThan(x, y) == Difference(x, y).k # "nan" /\ Difference(x, y).s <= 0
Moderate(x) == NoMoreThan(Decimal(1, -6), x) /\ NoMoreThan(x, Decimal(1, 6))

\* The arguments of the call are of moderate size: S, K, T and sigma between
\* a millionth and a million, r between minus a million and a million, and
\* -r * T no more than 600.
ModerateOption ==
    /\ Moderate(option.S) /\ Moderate(option.K)
    /\ Moderate(option.T) /\ Moderate(option.sigma)
    /\ NoMoreThan(Decimal(-1, 6), option.r) /\ NoMoreThan(option.r, Decimal(1, 6))
    /\ NoMoreThan(Product(Opposite(option.r), option.T), FloatOf(600))

\* A step of the computation raises on the arguments of the call: sigma ** 2
\* overflows, S / K has underflowed to zero when math.log takes it,
\* sigma * sqrt(T) has underflowed to zero when d1 is divided by it, or
\* -r * T is above 709.78 when math.exp takes it.
RaisingOption ==
    \/ Product(option.sigma, option.sigma).k = "inf"
    \/ Quotient(option.S, option.K).s = 0
    \/ Product(option.sigma, math_sqrt(option.T)).s = 0
    \/ Difference(Product(Opposite(option.r), option.T), Decimal(70978, -2)).s > 0

\* The call with S = K = T = sigma = 1 and r = -705.
OverflowingCall ==
    /\ option.S = FloatOf(1) /\ option.K = FloatOf(1) /\ option.T = FloatOf(1)
    /\ option.sigma = FloatOf(1) /\ option.r = FloatOf(-705)
    /\ Lower(option.option_type) = "call"

----------------------------------------------------------------------------
(* Properties of binomial_option_price.                                     *)

\* The call with american=true, and the one with american=false, returned.
American == priced[TRUE]
European == priced[FALSE]
HasPrice(call) == call.called /\ ~call.raised /\ call.returned

\* The risk-neutral probability of the calls, the intrinsic value at node
\* (j, i), and the value of holding the American option there.
ProbabilityOfCall ==
    Probability(binomial.T, binomial.r, binomial.sigma, binomial.steps)
IntrinsicAt(j, i) ==
    Intrinsic(binomial.S, binomial.K, binomial.T, binomial.sigma, binomial.steps,
              binomial.option_type, j, i)
ContinuationAt(j, i) ==
    Continuation(binomial.T, binomial.r, binomial.sigma, binomial.steps,
                 American.option_tree[i + 1], j)
IsProbability(p) == AtLeast(p, Whole(0)) /\ AtLeast(Whole(1), p)

\* C21: a call with american=true that returned left every interior node of
\* option_tree at max(continuation value, intrinsic value); and when the
\* risk-neutral probability lies in [0, 1], its price is at least the
\* intrinsic value at the root and at least the price the call with
\* american=false returned for the same arguments.
C21_AmericanDominates ==
    HasPrice(American) =>
        /\ \A i \in 0..(binomial.steps - 1) : \A j \in 0..i :
                American.option_tree[i][j] = Maximum(ContinuationAt(j, i), IntrinsicAt(j, i))
        /\ IsProbability(ProbabilityOfCall) =>
                /\ AtLeast(American.price, Maximum(Whole(0), IntrinsicAt(0, 0)))
                /\ HasPrice(European) => AtLeast(American.price, European.price)

\* An option over several steps, priced both ways with a probability strictly
\* between 0 and 1, that is worth more as an American one, with one node
\* below the root where exercise wins and one where holding does.
C21_Witness ==
    /\ HasPrice(American)
    /\ HasPrice(European)
    /\ binomial.steps >= 2
    /\ IsProbability(ProbabilityOfCall)
    /\ ProbabilityOfCall.num # 0
    /\ ProbabilityOfCall # Whole(1)
    /\ American.price # European.price
    /\ \E i \in 1..(binomial.steps - 1) : \E j \in 0..i :
            /\ ~AtLeast(ContinuationAt(j, i), IntrinsicAt(j, i))
            /\ American.option_tree[i][j] = IntrinsicAt(j, i)
    /\ \E i \in 1..(binomial.steps - 1) : \E j \in 0..i :
            /\ ~AtLeast(IntrinsicAt(j, i), ContinuationAt(j, i))
            /\ American.option_tree[i][j] = ContinuationAt(j, i)

\* The arguments for which the pricing engine's policy asks for a sentinel.
DegenerateTree == binomial.steps = 0 \/ binomial.T <= 0 \/ binomial.sigma <= 0

\* C26: a call of binomial_option_price with steps = 0, T <= 0 or sigma <= 0
\* is not left by an exception, and the price it returns is the not-a-number
\* sentinel.
C26_DegenerateTreeGivesSentinel ==
    DegenerateTree =>
        \A american \in BOOLEAN :
            /\ priced[american].called => ~priced[american].raised
            /\ HasPrice(priced[american]) => priced[american].price = np_nan

----------------------------------------------------------------------------
(* Properties of the position sizing and of the trades of run_backtest.     *)

\* floor(a * b / d) and a * b / d truncated toward zero, for b, d > 0.
TruncatedQuotient(a, b, d) ==
    LET n == Abs(a)
        q == (n \div d) * b + ((n % d) * b) \div d
    IN  IF a < 0 THEN -q ELSE q
FloorQuotient(a, b, d) ==
    IF a < 0 /\ ~IsWholeQuotient(a, b, d)
    THEN TruncatedQuotient(a, b, d) - 1
    ELSE TruncatedQuotient(a, b, d)

\* The shares that changed hands at finished row i: bought at a positive
\* PositionChange, sold at a negative one with a position held.
Traded(i) ==
    IF Gt(Rows[i].positions, 0) THEN Rows[i].position - Rows[i - 1].position
    ELSE Rows[i - 1].position - Rows[i].position
IsTrade(i) ==
    \/ Gt(Rows[i].positions, 0)
    \/ Lt(Rows[i].positions, 0) /\ Rows[i - 1].position > 0

\* What the trade of row i comes to when the bar is sized at count shares.
TradesCount(i, count) ==
    Traded(i) = IF Gt(Rows[i].positions, 0) THEN count ELSE Min(count, Rows[i - 1].position)

\* The percentage of the prior total over the close of row i, rounded down.
PercentageFloor(i) ==
    FloorQuotient(Rows[i - 1].total, position_sizing_value, 100 * Milli * Rows[i].close)

\* C22 as stated: the share count of every finished trade bar is
\* floor(value / close) under fixed_dollar, floor(total[t-1] * value/100 /
\* close) under percentage and under fixed_risk, and value under fixed_shares.
C22_ShareCountFloor ==
    \A i \in Finished :
        IsTrade(i) =>
            /\ position_sizing_method = "fixed_dollar" =>
                    TradesCount(i, position_sizing_value \div Rows[i].close)
            /\ position_sizing_method \in {"percentage", "fixed_risk"} =>
                    TradesCount(i, PercentageFloor(i))
            /\ position_sizing_method = "fixed_shares" =>
                    TradesCount(i, position_sizing_value)

\* C23: every series replayed here is empty or shorter than the lookback of
\* its strategy (14 bars at least), so a Backtester whose sizing was set
\* never sees run_backtest raise, and the history returned has one row per
\* input bar.
C23_ShortSeriesNeverRaise ==
    position_sizing_method # Unset =>
        /\ pc # "raised"
        /\ HasReturned => Len(Rows) = Len(data)

----------------------------------------------------------------------------
(* Properties of backtests that share their input series.                   *)

\* The history run_backtest builds when nothing else runs: the rows after the
\* loop has passed the first n of them.
RECURSIVE Replayed(_, _, _, _)
Replayed(rows, n, method, value) ==
    IF n <= 1 THEN rows
    ELSE LET before == Replayed(rows, n - 1, method, value)
         IN  [before EXCEPT ![n] = BarStep(before[n - 1], before[n], method, value)]

RunAlone(run) ==
    LET sig == generate_signals(run.strategy, data, columns).frame.rows
        rows == [i \in 1..Len(sig) |-> InitialRow(sig[i], run.initial_capital)]
    IN  Replayed(rows, Len(rows), run.position_sizing_method, run.position_sizing_value)

\* The rows of the history of instance k at which shares changed hands.
SharedTrades(k) ==
    LET rows == frames[runs[k].portfolio]
    IN  { i \in 2..Len(rows) : i <= runs[k].t /\ rows[i].position # rows[i - 1].position }

\* C24: whatever the order in which two instances over one series object take
\* their steps, the series object keeps the content it was loaded with, and
\* the history each instance returns is the one it builds when run alone.
C24_SharedSeriesIsolation ==
    /\ frames[DataRef] = data
    /\ \A k \in Instances :
            runs[k].pc = "returned" => frames[runs[k].portfolio] = RunAlone(runs[k])

\* Instance 1 has returned a history with a trade while instance 2, started
\* meanwhile under another strategy, is in its loop and has traded as well.
C24_Witness ==
    /\ runs[1].pc = "returned"
    /\ runs[2].pc = "bars"
    /\ runs[1].strategy # runs[2].strategy
    /\ SharedTrades(1) # {}
    /\ SharedTrades(2) # {}
    /\ runs[2].t < Len(data)
    /\ frames[runs[1].portfolio] # frames[runs[2].portfolio]

\* What the sized share count of row i costs, commission included.
CostAt(i) == SharesAt(i) * Rows[i].close * (Milli + commission)

\* C25: at every finished bar with a positive PositionChange the full sized
\* share count is bought and paid for whatever the cash of the bar before is:
\* a buy that costs more than that cash leaves the cash below zero.
C25_BuyNeverClamped ==
    \A i \in Finished :
        Gt(Rows[i].positions, 0) =>
            /\ Rows[i].position - Rows[i - 1].position = SharesAt(i)
            /\ Rows[i - 1].cash - Rows[i].cash = CostAt(i)
            /\ CostAt(i) > Rows[i - 1].cash => Rows[i].cash < 0

\* Repeated buys: two bars in a row buy the fixed share count, the first out
\* of cash that covers it, the second out of cash that does not, and the
\* history is returned with its cash below zero.
C25_Witness ==
    /\ HasReturned
    /\ position_sizing_method = "fixed_shares"
    /\ \E i \in Finished :
        /\ i - 1 \in Finished
        /\ Gt(Rows[i - 1].positions, 0)
        /\ Gt(Rows[i].positions, 0)
        /\ Rows[i - 1].cash >= 0
        /\ CostAt(i) > Rows[i - 1].cash
        /\ Rows[i].position = 2 * position_sizing_value
        /\ Rows[i].cash < 0

\* Row i of the history saw no trade: position and cash are those of row i - 1.
Untouched(i) ==
    /\ Rows[i].position = Rows[i - 1].position
    /\ Rows[i].cash = Rows[i - 1].cash

\* C27: bar 0 never trades, whatever its signal, and a finished bar whose
\* signal is the signal of the bar before does not trade either; a trade is
\* made only at a bar t >= 1 whose signal differs from that of bar t - 1.
C27_TradesOnlyOnSignalChange ==
    (portfolio # None /\ Len(Rows) >= 1) =>
        /\ Rows[1].position = 0
        /\ Rows[1].cash = initial_capital * Milli
        /\ \A i \in Finished : Rows[i].signal = Rows[i - 1].signal => Untouched(i)

\* The example of the claim: the RSI is below oversold from the first bar
\* onward, so the signal is 1 at every bar, and the returned history of a
\* Backtester with its sizing set holds no share at any bar.
C27_Witness ==
    /\ HasReturned
    /\ strategy = "rsi"
    /\ position_sizing_method \in KnownMethods
    /\ Len(Rows) >= 3
    /\ \A i \in 1..Len(Rows) :
        /\ Lt(Rows[i].RSI, oversold)
        /\ Rows[i].signal = 1
        /\ Rows[i].position = 0
        /\ Rows[i].cash = initial_capital * Milli

\* Row i as run_backtest leaves it when the PositionChange of the bar is
\* replaced by change.
RowWithChange(i, change) ==
    BarStep(Rows[i - 1], [Rows[i] EXCEPT !.positions = change],
            position_sizing_method, position_sizing_value)

\* C28: a finished bar whose PositionChange is +2 or -2 has the position,
\* cash, holdings and total that a PositionChange of +1 or -1 gives the same
\* bar: where the bar trades (a buy, or a sell with a position held), the
\* sized share count is traded once.
C28_SignNotMagnitude ==
    \A i \in Finished :
        (Rows[i].positions # NaN /\ Abs(Rows[i].positions) = 2) =>
            LET unit == RowWithChange(i, Sign(Rows[i].positions))
            IN  /\ Rows[i].position = unit.position
                /\ Rows[i].cash = unit.cash
                /\ Rows[i].holdings = unit.holdings
                /\ Rows[i].total = unit.total
                /\ IsTrade(i) => TradesCount(i, SharesAt(i))

\* The signal flips from -1 to +1 and back: the first flip buys the sized
\* count, the second sells it.
C28_Witness ==
    /\ HasReturned
    /\ \E i \in Finished :
        /\ i - 1 \in Finished
        /\ Rows[i - 1].positions = 2
        /\ Rows[i].positions = -2
        /\ Rows[i - 1].position = SharesAt(i - 1)
        /\ SharesAt(i - 1) > 0
        /\ Rows[i].position < Rows[i - 1].position

\* C29: every finished bar with a positive PositionChange adds the sized
\* share count to the position held, none or not; a bar with a negative one
\* takes at most the count sized at that bar off it; and the trades extracted
\* take no notice of either: a buy made while a trade is open opens no trade,
\* and a trade is closed by its sell bar, with the return of its two closes,
\* whatever position is left.
C29_NoSinglePositionEnforced ==
    /\ \A i \in Finished :
        /\ Gt(Rows[i].positions, 0) =>
                Rows[i].position = Rows[i - 1].position + SharesAt(i)
        /\ Lt(Rows[i].positions, 0) =>
                /\ Rows[i - 1].position - Rows[i].position <= SharesAt(i)
                /\ Rows[i].position >= Rows[i - 1].position - SharesAt(i)
    /\ MetricsComputed =>
            \A k \in 1..Len(trade_returns) :
                LET tr == trade_returns[k]
                IN  /\ tr.return = TradeReturn(Rows[RowAt(tr.entry_time)].close,
                                               Rows[RowAt(tr.exit_time)].close)
                    /\ \A j \in BuyTrades(Rows) :
                            (RowAt(tr.entry_time) < j /\ j < RowAt(tr.exit_time)) =>
                                \A l \in 1..Len(trade_returns) :
                                    RowAt(trade_returns[l].entry_time) # j

\* The signal goes -1, 0, +1, -1: two bars in a row buy, the sell that follows
\* takes one sized count off the two held, and the one trade extracted runs
\* from the first buy to that sell although shares are still held after it.
C29_Witness ==
    /\ MetricsComputed
    /\ Len(trade_returns) = 1
    /\ \E i \in Finished :
        /\ i - 1 \in Finished
        /\ i + 1 \in Finished
        /\ Rows[i - 1].signal = -1
        /\ Rows[i].signal = 0
        /\ Rows[i + 1].signal = 1
        /\ i + 2 \in Finished
        /\ Rows[i + 2].signal = -1
        /\ Rows[i + 1].position = 2 * SharesAt(i)
        /\ Rows[i + 2].position = Rows[i + 1].position - SharesAt(i + 2)
        /\ Rows[i + 2].position > 0
        /\ RowAt(trade_returns[1].entry_time) = i
        /\ RowAt(trade_returns[1].exit_time) = i + 2

\* Bar i (a row of the history) is a bar at which the MACD crosses above its
\* signal line, and a bar at which it crosses it either way.
IsCrossUp(i) ==
    /\ i >= 2
    /\ Gt(Rows[i].MACD, Rows[i].Signal)
    /\ Le(Rows[i - 1].MACD, Rows[i - 1].Signal)
IsCrossDown(i) ==
    /\ i >= 2
    /\ Lt(Rows[i].MACD, Rows[i].Signal)
    /\ Ge(Rows[i - 1].MACD, Rows[i - 1].Signal)
IsCross(i) == IsCrossUp(i) \/ IsCrossDown(i)

\* C30: under MACDStrategy, a finished cross-up bar that follows a zero signal
\* and is followed by a finished bar without a cross has PositionChange +1,
\* the bar after it -1; the sized count is bought at the first and
\* min(count sized at the second, position) is sold at the second.
C30_CrossUpSoldNextBar ==
    strategy = "macd" =>
        \A i \in Finished :
            ( /\ i + 1 \in Finished
              /\ IsCrossUp(i)
              /\ Rows[i - 1].signal = 0
              /\ ~IsCross(i + 1) ) =>
                /\ Rows[i].positions = 1
                /\ Rows[i + 1].positions = -1
                /\ Rows[i].position = Rows[i - 1].position + SharesAt(i)
                /\ Rows[i + 1].position =
                       Rows[i].position - Min(SharesAt(i + 1), Rows[i].position)

====
